---- MODULE Spec2Model ----
(***************************************************************************)
(* Model of the application assessment pipeline of the NeuroHire backend:  *)
(* the candidate flow handlers of Backend/routes/candidate_routes.py, the  *)
(* repositories they call, and the retrying inference clients of           *)
(* Backend/services.                                                       *)
(*                                                                         *)
(* The handlers are coroutines on one event loop.  A step of the model is  *)
(* the code between two suspension points (awaits); the store operation of *)
(* an await either succeeds or raises.  The synchronous calls of a         *)
(* background stage (requests.get, the gateway call with its time.sleep)   *)
(* hold the event loop: while a stage is inside one, no other coroutine    *)
(* takes a step, only the clock advances.                                  *)
(***************************************************************************)
EXTENDS Integers, Sequences, FiniteSets, TLC

(***************************************************************************)
(* Bounds of the model.                                                    *)
(***************************************************************************)
MaxSubmits == 2        \* calls of receive_cv_url
MaxVideoSubmits == 2   \* calls of receive_video_url
MaxQuestions == 2      \* interview questions of job 1
MaxPolledSubmits == 1  \* calls of receive_cv_url while the status is polled
MaxVideoFlows == 1     \* calls of receive_cv_url before the interview videos
MaxDecidedApplications == 1  \* applications a recruiter decides on
MaxDecisions == 2      \* calls of record_recruiter_decision
MaxAssessedApplications == 2  \* applications of a store with older rows
MaxJobs == 3           \* rows of the jobs table
MaxProgressQuestions == 10  \* interview questions and analyzed answers given to _progress
LargeQuestionCount == 200   \* a question count at which one answer is half a percent
MaxPayloadKeys == 2     \* keys of a payload given to _normalize_result
MaxInferredSubmits == 1 \* CV submissions whose stage calls the gateway client
MaxProfiledSubmits == 1 \* CV submissions whose candidate reviews the profile

(***************************************************************************)
(* Program constants.                                                      *)
(***************************************************************************)
FALLBACK_AGE_SEC == 45
STATUS_TIMEOUT_SEC == 10
MAX_RETRIES == 4
VIDEO_MAX_RETRIES == 4

(***************************************************************************)
(* Values.  A Python str is a sequence of tokens; the token " " is white   *)
(* space.  None is NoneStr for a nullable string, NoneInt for a nullable   *)
(* integer, and 0 for the latest-application slot (the code tests it with  *)
(* "not app_id"; ids start at 1).                                          *)
(***************************************************************************)
NoneStr == <<"None">>
NoneInt == -1
EmptyStr == <<>>
Blank == <<" ">>

IsSpace(c) == c = " "

RECURSIVE LStrip(_)
LStrip(s) ==
    IF s = <<>> THEN <<>>
    ELSE IF IsSpace(Head(s)) THEN LStrip(Tail(s)) ELSE s

RECURSIVE RStrip(_)
RStrip(s) ==
    IF s = <<>> THEN <<>>
    ELSE IF IsSpace(s[Len(s)]) THEN RStrip(SubSeq(s, 1, Len(s) - 1)) ELSE s

\* str.strip()
Strip(s) == RStrip(LStrip(s))

\* (v or "")
OrEmpty(s) == IF s = NoneStr THEN EmptyStr ELSE s

\* (v or None) for a str
OrNone(s) == IF s = EmptyStr THEN NoneStr ELSE s

\* str.lower() on the tokens the model uses
LowerTok(c) ==
    CASE c = "N/A" -> "n/a"
      [] c = "None" -> "none"
      [] c = "Not" -> "not"
      [] OTHER -> c

Lower(s) == [i \in 1..Len(s) |-> LowerTok(s[i])]

PLACEHOLDERS == { <<"not", " ", "provided">>, <<"n/a">>, <<"na">>, <<"none">> }

\* the value is stripped and kept whatever it says
clean_extracted_value_stripped(v) ==
    IF v = NoneStr THEN NoneStr
    ELSE IF Strip(v) = EmptyStr THEN NoneStr ELSE Strip(v)

\* _clean_extracted_value: placeholders and blank values become None
clean_extracted_value(v) ==
    IF v = NoneStr THEN NoneStr
    ELSE LET s == Strip(v)
         IN  IF s = EmptyStr \/ Lower(s) \in PLACEHOLDERS THEN NoneStr ELSE s

(***************************************************************************)
(* Results of the CV gateway as the stage sees them.                       *)
(***************************************************************************)
\* the dict of an exhausted budget without its error key
ErrorResult_unrecorded(err) ==
    [name |-> EmptyStr, email |-> EmptyStr, phone_number |-> EmptyStr,
     address |-> EmptyStr, description |-> EmptyStr,
     matching_analysis |-> <<>>, Total_score |-> NoneInt,
     recommendation |-> EmptyStr, error |-> NoneStr]

\* the dict returned when the retry budget is exhausted by exceptions
ErrorResult(err) ==
    [name |-> EmptyStr, email |-> EmptyStr, phone_number |-> EmptyStr,
     address |-> EmptyStr, description |-> EmptyStr,
     matching_analysis |-> <<>>, Total_score |-> NoneInt,
     recommendation |-> EmptyStr, error |-> err]

\* a scored analysis with extracted profile fields
ScoredResult ==
    [name |-> <<"A">>, email |-> <<"e">>, phone_number |-> EmptyStr,
     address |-> <<"N/A">>, description |-> <<"d">>,
     matching_analysis |-> <<"m">>, Total_score |-> 82,
     recommendation |-> <<"r">>, error |-> NoneStr]

\* a payload from which nothing could be extracted
BlankResult ==
    [name |-> <<"N/A">>, email |-> EmptyStr, phone_number |-> EmptyStr,
     address |-> EmptyStr, description |-> Blank,
     matching_analysis |-> <<>>, Total_score |-> NoneInt,
     recommendation |-> Blank, error |-> NoneStr]

CvAnalyses == { ScoredResult, BlankResult, ErrorResult(<<"timeout">>) }

\* json.dumps(matching) of the stage, as the text stored in parsed_keywords
JsonDumps(matching) ==
    IF matching = <<>> THEN <<"[]">> ELSE <<"[">> \o matching \o <<"]">>

(***************************************************************************)
(* Status projection.                                                      *)
(***************************************************************************)
\* the fallback taken as "older than 45 seconds"
AnalysisComplete_older(technical_score, cv_text, full_name, uploaded_at, now_) ==
    LET text == Strip(OrEmpty(cv_text))
        has_score == technical_score # NoneInt
        has_text == text # EmptyStr
        has_name == Strip(OrEmpty(full_name)) # EmptyStr
        age_seconds == IF uploaded_at # NoneInt THEN now_ - uploaded_at ELSE 0
        old_enough == age_seconds > FALLBACK_AGE_SEC
    IN  has_score \/ has_text \/ has_name \/ old_enough

\* cv_repo.is_analysis_complete_for_application on the joined row
AnalysisComplete(technical_score, cv_text, full_name, uploaded_at, now_) ==
    LET text == Strip(OrEmpty(cv_text))
        has_score == technical_score # NoneInt
        has_text == text # EmptyStr
        has_name == Strip(OrEmpty(full_name)) # EmptyStr
        age_seconds == IF uploaded_at # NoneInt THEN now_ - uploaded_at ELSE 0
        old_enough == age_seconds >= FALLBACK_AGE_SEC
    IN  has_score \/ has_text \/ has_name \/ old_enough

\* round() of Python 3 on the quotient n/d: ties go to the even integer
RoundHalfEven(n, d) ==
    LET q == n \div d
        r == n % d
    IN  IF 2 * r < d THEN q
        ELSE IF 2 * r > d THEN q + 1
        ELSE IF q % 2 = 0 THEN q ELSE q + 1

Min(a, b) == IF a <= b THEN a ELSE b

\* the percentage cut off instead of rounded
progress_truncated(analyzed, total_questions) ==
    IF total_questions = 0 THEN <<100, TRUE>>
    ELSE LET pct == Min(100, (analyzed * 100) \div total_questions)
         IN  <<pct, pct >= 100>>

\* _progress of list_applications_for_job
progress(analyzed, total_questions) ==
    IF total_questions = 0 THEN <<100, TRUE>>
    ELSE LET pct == Min(100, RoundHalfEven(analyzed * 100, total_questions))
         IN  <<pct, pct >= 100>>

(***************************************************************************)
(* State.                                                                  *)
(***************************************************************************)
VARIABLES
    now,                      \* wall clock, seconds
    candidate_selected_job,   \* _candidate_selected_job: session key -> job id, 0 = no entry
    latest_application_id,    \* _latest_application_id, 0 = None
    candidates,               \* table candidates: candidate_id -> row
    candidate_applications,   \* table candidate_applications: application_id -> row
    ai_assessments,           \* table ai_assessments: application_id -> row
    cv_data,                  \* table cv_data: application_id -> row
    video_submissions,        \* table video_submissions: set of rows
    cv_requests,              \* receive_cv_url coroutines, in order of arrival
    cv_tasks,                 \* _download_and_analyze_cv tasks: application_id -> frame
    video_tasks,              \* _analyze_video_and_update_db tasks, in order of scheduling
    video_files,              \* videos_application directory: <<application_id, question_index>> -> content
    response,                 \* the last HTTP response sent
    gateway_call,             \* the frame of a call of run_cv_jd_analysis
    jobs,                     \* jobs table: job_id -> row
    recruiter_decisions,      \* recruiter_decisions table: a set of rows
    decision_calls,           \* the frames of the calls of record_recruiter_decision
    job_call,                 \* the last call of create_job or update_job and how it ended
    progress_call,            \* the last call of _progress and what it returned
    assessment_call,          \* the last call of upsert_cv_jd_assessment
    normalize_call,           \* the last call of _normalize_result and what it returned
    video_call                \* the frame of a call of run_video_full_pipeline

vars == <<now, candidate_selected_job, latest_application_id, candidates,
          candidate_applications, ai_assessments, cv_data, video_submissions,
          cv_requests, cv_tasks, video_tasks, video_files, response,
          gateway_call, jobs, recruiter_decisions, decision_calls, job_call,
          progress_call, assessment_call, normalize_call, video_call>>

\* the calls of the functions of the two gateway clients
client_calls == <<normalize_call, video_call>>

\* the in-memory state, the coroutines and the files of the candidate flow
flow_state == <<now, candidate_selected_job, latest_application_id, cv_requests,
                cv_tasks, video_tasks, video_files, response, gateway_call,
                client_calls>>

\* the state of the recruiter-side repository functions
recruiter_side == <<jobs, recruiter_decisions, decision_calls, job_call,
                    progress_call, assessment_call>>

tables == <<candidates, candidate_applications, ai_assessments, cv_data,
            video_submissions>>

\* the instants at which the clock is observed; the last one is the horizon
Instants == {0, 10, 45, 46, 91}
Horizon == CHOOSE t \in Instants : \A u \in Instants : u <= t

SessionIds == {"", "s1"}
Jobs == {1, 2}
CvUrls == {"cv1", "cv2"}
VideoUrls == {"v1", "v2"}

\* job 1 has MaxQuestions interview questions, job 2 has none
QuestionCount(job_id) == IF job_id = 1 THEN MaxQuestions ELSE 0
QuestionIndexes == 0..(MaxQuestions - 1)

\* session_id or "default"
SessionKey(session_id) == IF session_id = "" THEN "default" ELSE session_id

Resp(op, status, app, store, pending) ==
    [op |-> op, status |-> status, application_id |-> app, store |-> store,
     pending |-> pending, job_id |-> 0]

\* the body of get-selected-job: the selected job, 0 for null
SelectedJobResp(job_id) ==
    [Resp("selected-job", 200, 0, "none", FALSE) EXCEPT !.job_id = job_id]

NoResponse == Resp("none", 0, 0, "none", FALSE)

\* a NULL jsonb column
NullJson == [null |-> TRUE]

EmptyAssessment ==
    [cv_score |-> NoneInt, cv_recommendation |-> NoneStr,
     cv_matching_analysis |-> NoneStr, cv_reason_summary |-> NoneStr,
     cv_jd_output |-> NullJson,
     confidence_score |-> NoneInt, speech_analysis |-> NoneStr]

\* a row whose speech columns were filled before they moved to video_submissions
LegacyAssessment ==
    [EmptyAssessment EXCEPT !.cv_score = 76, !.confidence_score = 70,
                            !.speech_analysis = <<"s">>]

\* assessment_payload = None
NoPayload ==
    [present |-> FALSE, cv_score |-> NoneInt, cv_recommendation |-> NoneStr,
     cv_matching_analysis |-> NoneStr, cv_reason_summary |-> NoneStr,
     cv_jd_output |-> NullJson]

\* _normalize_result of a raw output that carries a parse-failure phrase:
\* no key is found, every common key gets its default, there is no error key
NormalizedUnparsed == ErrorResult(NoneStr)

\* the frame of a call: attempt is the loop variable, history the outcomes
\* of the calls of client.predict so far, sleeps the calls of time.sleep
GatewayFrame(pc, attempt, history, sleeps, result) ==
    [pc |-> pc, attempt |-> attempt, history |-> history, sleeps |-> sleeps,
     result |-> result]

NoGatewayCall == GatewayFrame("idle", 0, <<>>, 0, NormalizedUnparsed)

\* the jobs table after seeding: every job of Jobs, owned by recruiter 1
JobRow(recruiter_id, cv_score_weightage, video_score_weightage) ==
    [recruiter_id |-> recruiter_id, cv_score_weightage |-> cv_score_weightage,
     video_score_weightage |-> video_score_weightage]

SeededJobs == [j \in Jobs |-> JobRow(1, 75, 25)]

JobCall(op, job_id, cv_score_weightage, video_score_weightage, result) ==
    [op |-> op, job_id |-> job_id, cv_score_weightage |-> cv_score_weightage,
     video_score_weightage |-> video_score_weightage, result |-> result]

NoJobCall == JobCall("none", 0, 0, 0, "none")

ProgressCall(analyzed, total_questions, result) ==
    [analyzed |-> analyzed, total_questions |-> total_questions, result |-> result]

\* before the first call: what _progress gives for no question at all
NoProgressCall == ProgressCall(0, 0, progress(0, 0))

NoAssessmentCall == [application_id |-> 0, payload |-> NoPayload]

(***************************************************************************)
(* _normalize_result of the CV client.  A raw payload is the list of the   *)
(* (key, value) items of the dict in iteration order; a key is a sequence  *)
(* of tokens, a value is a float given in hundredths, an int, a str or     *)
(* None.                                                                   *)
(***************************************************************************)
PyFloat(hundredths) == [t |-> "float", n |-> hundredths, s |-> EmptyStr]
PyInt(n) == [t |-> "int", n |-> n, s |-> EmptyStr]
PyStr(s) == [t |-> "str", n |-> 0, s |-> s]
PyNone == [t |-> "none", n |-> 0, s |-> EmptyStr]

\* k.lower() on the tokens of the keys
lower_key_token(c) ==
    CASE c \in {"Total", "TOTAL"} -> "total"
      [] c \in {"Score", "SCORE"} -> "score"
      [] c = "Email" -> "email"
      [] c = "Address" -> "address"
      [] c = "Name" -> "name"
      [] OTHER -> c

\* line 84: k.lower().replace(" ", "_")
k_lower(k) ==
    [i \in 1..Len(k) |-> IF k[i] = " " THEN "_" ELSE lower_key_token(k[i])]

\* int(str): the integer literals among the strings of the model
int_of_str(s) ==
    CASE Strip(s) = <<"76">> -> 76
      [] Strip(s) = <<"82">> -> 82
      [] OTHER -> NoneInt

\* _int_or_none: int(v), None when int raises TypeError or ValueError;
\* int of a float cuts the fraction off, towards zero
int_or_none(v) ==
    CASE v.t = "none" -> NoneInt
      [] v.t = "float" -> IF v.n >= 0 THEN v.n \div 100 ELSE 0 - ((0 - v.n) \div 100)
      [] v.t = "int" -> v.n
      [] OTHER -> int_of_str(v.s)

\* _str: str(v).strip(); the values of the text keys are strs in the model
py_str(v) == IF v.t = "str" THEN Strip(v.s) ELSE EmptyStr

\* lines 81-102: one item of the loop over the keys
normalize_item(out, k, v) ==
    LET kl == k_lower(k)
    IN  IF v.t = "none" THEN out
        ELSE IF kl \in {<<"email">>, <<"email", "_", "address">>}
        THEN [out EXCEPT !.email = py_str(v)]
        ELSE IF kl \in {<<"home", "_", "address">>, <<"address">>}
        THEN [out EXCEPT !.address = py_str(v)]
        ELSE IF kl = <<"name">>
        THEN [out EXCEPT !.name = py_str(v)]
        ELSE IF kl \in {<<"phone", "_", "number">>, <<"phone">>}
        THEN [out EXCEPT !.phone_number = py_str(v)]
        ELSE IF kl = <<"description">>
        THEN [out EXCEPT !.description = py_str(v)]
        ELSE IF kl \in {<<"total", "_", "score">>, <<"score">>}
        THEN [out EXCEPT !.Total_score = int_or_none(v)]
        ELSE IF kl = <<"recommendation">>
        THEN [out EXCEPT !.recommendation = py_str(v)]
        ELSE out

RECURSIVE normalize_items(_, _)
normalize_items(out, data) ==
    IF data = <<>> THEN out
    ELSE normalize_items(normalize_item(out, data[1][1], data[1][2]), Tail(data))

\* _normalize_result of a dict: the keys found, then the defaults of lines
\* 105-112 for the keys not found; a key it does not know is copied as it
\* is and read by no caller
normalize_dict(data) == normalize_items(NormalizedUnparsed, data)

NormalizeCall(raw, result) == [raw |-> raw, result |-> result]

NoNormalizeCall == NormalizeCall(<<>>, normalize_dict(<<>>))

(***************************************************************************)
(* Results and frame of run_video_full_pipeline.  A result is the set of   *)
(* keys of the returned dict and the value of its error key.               *)
(***************************************************************************)
\* the keys _normalize_video_result writes for the video schema
VideoContentKeys ==
    {"transcript", "face_presence_ratio", "camera_engagement_ratio",
     "yaw_variance", "visual_confidence_score", "needs_review", "summary",
     "relevance", "clarity"}

\* {"error": ...}
VideoErrorResult(err) == [keys |-> {"error"}, error |-> err]

\* _normalize_video_result of a response with transcript, visual_analysis
\* and grading
VideoNormalizedResult == [keys |-> VideoContentKeys, error |-> NoneStr]

NoVideoCall == GatewayFrame("idle", 0, <<>>, 0, [keys |-> {}, error |-> NoneStr])

Init ==
    /\ now = 0
    /\ candidate_selected_job = [k \in {"default", "s1"} |-> 0]
    /\ latest_application_id = 0
    /\ candidates = <<>>
    /\ candidate_applications = <<>>
    /\ ai_assessments = <<>>
    /\ cv_data = <<>>
    /\ video_submissions = {}
    /\ cv_requests = <<>>
    /\ cv_tasks = <<>>
    /\ video_tasks = <<>>
    /\ video_files = <<>>
    /\ response = NoResponse
    /\ gateway_call = NoGatewayCall
    /\ jobs = SeededJobs
    /\ recruiter_decisions = {}
    /\ decision_calls = <<>>
    /\ job_call = NoJobCall
    /\ progress_call = NoProgressCall
    /\ assessment_call = NoAssessmentCall
    /\ normalize_call = NoNormalizeCall
    /\ video_call = NoVideoCall

(***************************************************************************)
(* The event loop.                                                         *)
(***************************************************************************)
\* a stage is inside a synchronous call and holds the event loop
Blocked ==
    \/ \E a \in DOMAIN cv_tasks : cv_tasks[a].pc = "running"
    \/ \E t \in DOMAIN video_tasks : video_tasks[t].pc \in {"downloading", "inferring"}

\* the outcomes of one store operation: TRUE = success, FALSE = it raises
StoreOutcomes == BOOLEAN

NextInstant == CHOOSE t \in Instants : t > now /\ \A u \in Instants : u > now => t <= u

Tick ==
    /\ \E t \in Instants : t > now
    /\ now' = NextInstant
    /\ UNCHANGED <<client_calls, recruiter_side, gateway_call, candidate_selected_job, latest_application_id, tables,
                   cv_requests, cv_tasks, video_tasks, video_files, response>>

(***************************************************************************)
(* set_candidate_selected_job                                              *)
(***************************************************************************)
set_candidate_selected_job(session_id, job_id) ==
    /\ ~Blocked
    /\ candidate_selected_job' =
           [candidate_selected_job EXCEPT ![SessionKey(session_id)] = job_id]
    /\ UNCHANGED <<client_calls, recruiter_side, gateway_call, now, response, latest_application_id, tables, cv_requests, cv_tasks,
                   video_tasks, video_files>>

\* lines 273-280: the entry of the session, None when there is none
get_candidate_selected_job(session_id) ==
    /\ ~Blocked
    /\ response' = SelectedJobResp(candidate_selected_job[SessionKey(session_id)])
    /\ UNCHANGED <<client_calls, recruiter_side, gateway_call, now, candidate_selected_job,
                   latest_application_id, tables, cv_requests, cv_tasks,
                   video_tasks, video_files>>

(***************************************************************************)
(* Store operations used by receive_cv_url.                                *)
(***************************************************************************)
NextId(table) == Cardinality(DOMAIN table) + 1

\* candidate_repo.create_candidate_minimal: all profile fields NULL
create_candidate_minimal(table) ==
    table @@ (NextId(table) :>
        [full_name |-> NoneStr, email |-> NoneStr, phone |-> NoneStr,
         address |-> NoneStr])

\* an existing application of the job is used again
created_application_id_reused(table, candidate_id, job_id) ==
    IF \E a \in DOMAIN table : table[a].job_id = job_id
    THEN CHOOSE a \in DOMAIN table : table[a].job_id = job_id
    ELSE NextId(table)

\* the application_id that create_candidate_application returns
created_application_id(table, candidate_id, job_id) == NextId(table)

\* application_repo.create_candidate_application: a plain INSERT
create_candidate_application(table, candidate_id, job_id) ==
    LET id == created_application_id(table, candidate_id, job_id)
    IN  IF id \in DOMAIN table THEN table
        ELSE table @@ (id :> [candidate_id |-> candidate_id, job_id |-> job_id,
                              status |-> "pending"])

\* application_repo.insert_empty_ai_assessment: ON CONFLICT DO NOTHING
insert_empty_ai_assessment(table, application_id) ==
    IF application_id \in DOMAIN table THEN table
    ELSE table @@ (application_id :> EmptyAssessment)

\* cv_repo.insert_cv_metadata; uploaded_at is the insertion time
insert_cv_metadata(table, application_id, file_url, at) ==
    table @@ (application_id :>
        [cv_url |-> file_url, cv_text |-> EmptyStr, parsed_keywords |-> EmptyStr,
         technical_score |-> NoneInt, uploaded_at |-> at])

(***************************************************************************)
(* receive_cv_url, one action per suspension point.                        *)
(***************************************************************************)
CvRequestDone == [pc |-> "done", job_id |-> 0, candidate_id |-> 0,
                  application_id |-> 0, file_url |-> ""]

ScheduledCvTask(file_url, candidate_id) ==
    [pc |-> "scheduled", cv_url |-> file_url, candidate_id |-> candidate_id,
     cv_text |-> EmptyStr, parsed_keywords |-> EmptyStr,
     technical_score |-> NoneInt, payload |-> NoPayload,
     extracted |-> <<NoneStr, NoneStr, NoneStr, NoneStr>>,
     calls |-> 0, written |-> FALSE]

\* every request is taken to come with a selected job
has_selected_job_always(selected) == TRUE

\* lines 299-301: not selected or not selected.get("job_id")
has_selected_job(selected) == selected # 0

\* lines 296-311: the selected-job check and create_candidate_minimal
receive_cv_url_begin(file_url, ok) ==
    /\ ~Blocked
    /\ LET selected == candidate_selected_job["default"]
       IN  IF ~has_selected_job(selected)
           THEN /\ cv_requests' = Append(cv_requests, CvRequestDone)
                /\ response' = Resp("cv-url", 400, 0, "none", FALSE)
                /\ UNCHANGED <<candidates>>
           ELSE /\ IF ok
                   THEN /\ candidates' = create_candidate_minimal(candidates)
                        /\ cv_requests' = Append(cv_requests,
                               [pc |-> "create_application", job_id |-> selected,
                                candidate_id |-> NextId(candidates),
                                application_id |-> 0, file_url |-> file_url])
                        /\ UNCHANGED response
                   ELSE /\ cv_requests' = Append(cv_requests, CvRequestDone)
                        /\ response' = Resp("cv-url", 500, 0, "none", FALSE)
                        /\ UNCHANGED candidates
    /\ UNCHANGED <<client_calls, recruiter_side, gateway_call, now, candidate_selected_job, latest_application_id,
                   candidate_applications, ai_assessments, cv_data,
                   video_submissions, cv_tasks, video_tasks, video_files>>

\* lines 314-318: create_candidate_application
receive_cv_url_create_application(r, ok) ==
    /\ ~Blocked
    /\ cv_requests[r].pc = "create_application"
    /\ IF ok
           THEN LET f == cv_requests[r]
                IN  /\ candidate_applications' = create_candidate_application(
                           candidate_applications, f.candidate_id, f.job_id)
                    /\ cv_requests' = [cv_requests EXCEPT ![r] =
                           [f EXCEPT !.pc = "insert_assessment",
                                     !.application_id = created_application_id(
                                         candidate_applications, f.candidate_id, f.job_id)]]
                    /\ UNCHANGED response
           ELSE /\ cv_requests' = [cv_requests EXCEPT ![r] = CvRequestDone]
                /\ response' = Resp("cv-url", 500, 0, "none", FALSE)
                /\ UNCHANGED candidate_applications
    /\ UNCHANGED <<client_calls, recruiter_side, gateway_call, now, candidate_selected_job, latest_application_id, candidates,
                   ai_assessments, cv_data, video_submissions, cv_tasks, video_tasks, video_files>>

\* the slot keeps the application of the first flow that set it
latest_after_submit_first(latest, application_id) ==
    IF latest = 0 THEN application_id ELSE latest

\* lines 324-325: _latest_application_id = application["application_id"]
latest_after_submit(latest, application_id) == application_id

\* lines 321-325: insert_empty_ai_assessment, then the latest-application slot
receive_cv_url_insert_assessment(r, ok) ==
    /\ ~Blocked
    /\ cv_requests[r].pc = "insert_assessment"
    /\ IF ok
           THEN /\ ai_assessments' = insert_empty_ai_assessment(
                       ai_assessments, cv_requests[r].application_id)
                /\ latest_application_id' = latest_after_submit(
                       latest_application_id, cv_requests[r].application_id)
                /\ cv_requests' = [cv_requests EXCEPT ![r].pc = "insert_cv"]
                /\ UNCHANGED response
           ELSE /\ cv_requests' = [cv_requests EXCEPT ![r] = CvRequestDone]
                /\ response' = Resp("cv-url", 500, 0, "none", FALSE)
                /\ UNCHANGED <<ai_assessments, latest_application_id>>
    /\ UNCHANGED <<client_calls, recruiter_side, gateway_call, now, candidate_selected_job, candidates, candidate_applications,
                   cv_data, video_submissions, cv_tasks, video_tasks, video_files>>

\* is the background stage scheduled after insert_cv_metadata returned or raised
cv_stage_scheduled(inserted) == inserted

\* lines 328-351: insert_cv_metadata, add_task, the response
receive_cv_url_insert_cv(r, ok) ==
    /\ ~Blocked
    /\ cv_requests[r].pc = "insert_cv"
    /\ LET f == cv_requests[r]
        IN  /\ cv_requests' = [cv_requests EXCEPT ![r] = CvRequestDone]
            /\ cv_data' = IF ok
                          THEN insert_cv_metadata(cv_data, f.application_id, f.file_url, now)
                          ELSE cv_data
            /\ cv_tasks' = IF cv_stage_scheduled(ok)
                           THEN cv_tasks @@ (f.application_id :>
                                    ScheduledCvTask(f.file_url, f.candidate_id))
                           ELSE cv_tasks
            /\ response' = IF ok THEN Resp("cv-url", 200, f.application_id, "none", FALSE)
                           ELSE Resp("cv-url", 500, 0, "none", FALSE)
    /\ UNCHANGED <<client_calls, recruiter_side, gateway_call, now, candidate_selected_job, latest_application_id, candidates,
                   candidate_applications, ai_assessments, video_submissions,
                   video_tasks, video_files>>

(***************************************************************************)
(* candidate_analysis_status                                               *)
(***************************************************************************)
\* cv_repo.is_analysis_complete_for_application: the join and the predicate
is_analysis_complete_for_application(application_id) ==
    IF /\ application_id \in DOMAIN cv_data
       /\ application_id \in DOMAIN candidate_applications
       /\ candidate_applications[application_id].candidate_id \in DOMAIN candidates
    THEN LET d == cv_data[application_id]
             c == candidates[candidate_applications[application_id].candidate_id]
         IN  AnalysisComplete(d.technical_score, d.cv_text, c.full_name,
                              d.uploaded_at, now)
    ELSE FALSE

\* how the store call of the status check can go: its duration, whether it raises
StatusStoreCalls == [latency : {1, 11}, raises : BOOLEAN]

\* asyncio.wait_for(..., timeout=10.0) around the store call
status_store_outcome(call) ==
    IF call.latency > STATUS_TIMEOUT_SEC THEN "timeout"
    ELSE IF call.raises THEN "error" ELSE "ok"

\* a handler that reports what it knows when the store call failed
status_pending_closed(outcome, complete) == ~complete

\* lines 252-259: pending after the store call ended with the given outcome
status_pending(outcome, complete) ==
    IF outcome = "ok" THEN ~complete ELSE FALSE

candidate_analysis_status(call) ==
    /\ ~Blocked
    /\ LET app_id == latest_application_id
       IN  IF app_id = 0
           THEN response' = Resp("analysis-status", 200, 0, "none", FALSE)
           ELSE response' = Resp("analysis-status", 200, app_id,
                        status_store_outcome(call),
                        status_pending(status_store_outcome(call),
                            is_analysis_complete_for_application(app_id)))
    /\ UNCHANGED <<client_calls, recruiter_side, gateway_call, now, candidate_selected_job, latest_application_id, tables,
                   cv_requests, cv_tasks, video_tasks, video_files>>

(***************************************************************************)
(* Store operations used by the CV-analysis stage.                         *)
(***************************************************************************)
\* candidate_repo.update_candidate_from_extraction: only non-empty values
HasValue(v) == v # NoneStr /\ Strip(v) # EmptyStr

HasUpdates(extracted) == \E i \in 1..4 : HasValue(extracted[i])

update_candidate_from_extraction(table, candidate_id, extracted) ==
    IF candidate_id \notin DOMAIN table THEN table
    ELSE LET old == table[candidate_id]
             Pick(v, prev) == IF HasValue(v) THEN Strip(v) ELSE prev
         IN  [table EXCEPT ![candidate_id] =
                 [full_name |-> Pick(extracted[1], old.full_name),
                  email |-> Pick(extracted[2], old.email),
                  phone |-> Pick(extracted[3], old.phone),
                  address |-> Pick(extracted[4], old.address)]]

\* cv_repo.update_cv_analysis: UPDATE ... WHERE application_id = $1
update_cv_analysis(table, application_id, cv_text, parsed_keywords, technical_score) ==
    IF application_id \notin DOMAIN table THEN table
    ELSE [table EXCEPT ![application_id] =
             [@ EXCEPT !.cv_text = cv_text, !.parsed_keywords = parsed_keywords,
                       !.technical_score = technical_score]]

\* the row is written anew from the payload
replace_cv_jd_assessment(table, application_id, payload) ==
    [b \in DOMAIN table \cup {application_id} |->
        IF b = application_id
        THEN [EmptyAssessment EXCEPT !.cv_score = payload.cv_score,
                      !.cv_recommendation = payload.cv_recommendation,
                      !.cv_matching_analysis = payload.cv_matching_analysis,
                      !.cv_reason_summary = payload.cv_reason_summary,
                      !.cv_jd_output = payload.cv_jd_output]
        ELSE table[b]]

\* application_repo.upsert_cv_jd_assessment: insert if absent, then set the cv_* columns
upsert_cv_jd_assessment(table, application_id, payload) ==
    LET t == IF application_id \in DOMAIN table THEN table
             ELSE table @@ (application_id :> EmptyAssessment)
    IN  [t EXCEPT ![application_id] =
            [@ EXCEPT !.cv_score = payload.cv_score,
                      !.cv_recommendation = payload.cv_recommendation,
                      !.cv_matching_analysis = payload.cv_matching_analysis,
                      !.cv_reason_summary = payload.cv_reason_summary,
                      !.cv_jd_output = payload.cv_jd_output]]

(***************************************************************************)
(* _download_and_analyze_cv                                                *)
(***************************************************************************)
\* what the synchronous part of the stage can end with
CvStageOutcomes ==
    {[kind |-> "download_failed", analysis |-> ErrorResult(NoneStr)],
     [kind |-> "analysis_raised", analysis |-> ErrorResult(NoneStr)]}
    \cup {[kind |-> "analysis", analysis |-> a] : a \in CvAnalyses}

\* lines 167-168: the text the finally clause passes to update_cv_analysis
final_cv_text(cv_text, technical_score) ==
    IF cv_text = EmptyStr /\ technical_score = NoneInt THEN Blank ELSE cv_text

\* the return of the download handler leaves the stage at once
after_download_failure_returns == "done"

\* lines 129-133: where the stage continues when the download raised; the
\* return is inside the try statement, so its finally clause runs
after_download_failure == "update_cv_analysis"

\* lines 138-154: the locals computed from the analysis
analysis_locals(f, analysis) ==
    LET cv_text == Strip(OrEmpty(analysis.description))
        matching == analysis.matching_analysis
        extracted == <<clean_extracted_value(analysis.name),
                       clean_extracted_value(analysis.email),
                       clean_extracted_value(analysis.phone_number),
                       clean_extracted_value(analysis.address)>>
    IN  [f EXCEPT !.cv_text = cv_text,
                  !.parsed_keywords = JsonDumps(matching),
                  !.technical_score = analysis.Total_score,
                  !.extracted = extracted,
                  !.payload =
                      [present |-> TRUE,
                       cv_score |-> analysis.Total_score,
                       cv_recommendation |-> OrNone(Strip(OrEmpty(analysis.recommendation))),
                       cv_matching_analysis |-> IF matching = <<>> THEN NoneStr ELSE matching,
                       cv_reason_summary |-> OrNone(Strip(cv_text)),
                       cv_jd_output |-> analysis]]

\* entering the finally clause
enter_finally(f) ==
    [f EXCEPT !.pc = "update_cv_analysis",
              !.cv_text = final_cv_text(f.cv_text, f.technical_score),
              !.extracted = <<NoneStr, NoneStr, NoneStr, NoneStr>>]

\* the stage starts: download_and_save_cv and run_cv_jd_analysis are synchronous
cv_stage_start(a) ==
    /\ ~Blocked
    /\ cv_tasks[a].pc = "scheduled"
    /\ cv_tasks' = [cv_tasks EXCEPT ![a].pc = "running"]
    /\ UNCHANGED <<client_calls, recruiter_side, gateway_call, now, candidate_selected_job, latest_application_id, tables,
                   cv_requests, video_tasks, video_files, response>>

\* lines 128-162 up to the first suspension point
cv_stage_analyzed(a, outcome) ==
    /\ cv_tasks[a].pc = "running"
    /\ LET f == cv_tasks[a]
       IN  cv_tasks' = [cv_tasks EXCEPT ![a] =
               IF outcome.kind = "download_failed"
               THEN IF after_download_failure = "update_cv_analysis"
                    THEN enter_finally(f)
                    ELSE [f EXCEPT !.pc = after_download_failure]
               ELSE IF outcome.kind = "analysis_raised"
               THEN enter_finally(f)
               ELSE LET g == analysis_locals(f, outcome.analysis)
                    IN  IF HasUpdates(g.extracted)
                        THEN [g EXCEPT !.pc = "update_candidate"]
                        ELSE enter_finally(g)]
    /\ UNCHANGED <<client_calls, recruiter_side, gateway_call, now, candidate_selected_job, latest_application_id, tables,
                   cv_requests, video_tasks, video_files, response>>

\* lines 155-164: update_candidate_from_extraction; an exception is logged
cv_stage_update_candidate(a, ok) ==
    /\ ~Blocked
    /\ cv_tasks[a].pc = "update_candidate"
    /\ candidates' = IF ok
                         THEN update_candidate_from_extraction(
                                  candidates, cv_tasks[a].candidate_id, cv_tasks[a].extracted)
                         ELSE candidates
    /\ cv_tasks' = [cv_tasks EXCEPT ![a] = enter_finally(cv_tasks[a])]
    /\ UNCHANGED <<client_calls, recruiter_side, gateway_call, now, candidate_selected_job, latest_application_id,
                   candidate_applications, ai_assessments, cv_data,
                   video_submissions, cv_requests, video_tasks, video_files, response>>

\* lines 169-175: update_cv_analysis; an exception leaves the finally clause
cv_stage_update_cv_analysis(a, ok) ==
    /\ ~Blocked
    /\ cv_tasks[a].pc = "update_cv_analysis"
    /\ LET f == cv_tasks[a]
        IN  /\ cv_data' = IF ok
                          THEN update_cv_analysis(cv_data, a, f.cv_text,
                                                  f.parsed_keywords, f.technical_score)
                          ELSE cv_data
            /\ cv_tasks' = [cv_tasks EXCEPT ![a] =
                   [f EXCEPT !.calls = @ + 1, !.written = ok,
                             !.pc = IF ok /\ f.payload.present
                                    THEN "upsert_assessment" ELSE "done"]]
    /\ UNCHANGED <<client_calls, recruiter_side, gateway_call, now, candidate_selected_job, latest_application_id, candidates,
                   candidate_applications, ai_assessments, video_submissions,
                   cv_requests, video_tasks, video_files, response>>

\* lines 177-186: upsert_cv_jd_assessment; an exception is logged
cv_stage_upsert_assessment(a, ok) ==
    /\ ~Blocked
    /\ cv_tasks[a].pc = "upsert_assessment"
    /\ ai_assessments' = IF ok
                             THEN upsert_cv_jd_assessment(ai_assessments, a,
                                                          cv_tasks[a].payload)
                             ELSE ai_assessments
    /\ cv_tasks' = [cv_tasks EXCEPT ![a].pc = "done"]
    /\ UNCHANGED <<client_calls, recruiter_side, gateway_call, now, candidate_selected_job, latest_application_id, candidates,
                   candidate_applications, cv_data, video_submissions,
                   cv_requests, video_tasks, video_files, response>>

(***************************************************************************)
(* Store operations on video_submissions.                                  *)
(***************************************************************************)
NoMetrics ==
    [transcript |-> NoneStr, face_presence_ratio |-> NoneInt,
     camera_engagement_Ratio |-> NoneInt, yaw_variance |-> NoneInt]

HasKey(row, application_id, question_index) ==
    row.application_id = application_id /\ row.question_index = question_index

\* a plain INSERT without the conflict clause
insert_video_metadata(rows, application_id, question_index, video_url) ==
    rows \cup
         {[application_id |-> application_id, question_index |-> question_index,
           video_url |-> video_url, audio_transcript |-> NoneStr,
           face_presence_ratio |-> NoneInt, camera_engagement_Ratio |-> NoneInt,
           yaw_variance |-> NoneInt, video_score |-> NoneInt]}

\* video_repo.upsert_video_metadata: INSERT ... ON CONFLICT (application_id,
\* question_index) DO UPDATE; the analysis columns of an existing row are kept
upsert_video_metadata(rows, application_id, question_index, video_url) ==
    IF \E row \in rows : HasKey(row, application_id, question_index)
    THEN {IF HasKey(row, application_id, question_index)
          THEN [row EXCEPT !.video_url = video_url] ELSE row : row \in rows}
    ELSE rows \cup
         {[application_id |-> application_id, question_index |-> question_index,
           video_url |-> video_url, audio_transcript |-> NoneStr,
           face_presence_ratio |-> NoneInt, camera_engagement_Ratio |-> NoneInt,
           yaw_variance |-> NoneInt, video_score |-> NoneInt]}

\* an UPDATE whose WHERE clause names the application only
update_video_analysis_fields_of_application(rows, application_id, question_index, metrics) ==
    {IF row.application_id = application_id
     THEN [row EXCEPT !.audio_transcript = metrics.transcript,
                      !.face_presence_ratio = metrics.face_presence_ratio,
                      !.camera_engagement_Ratio = metrics.camera_engagement_Ratio,
                      !.yaw_variance = metrics.yaw_variance]
     ELSE row : row \in rows}

\* video_repo.update_video_analysis_fields: UPDATE ... WHERE application_id, question_index
update_video_analysis_fields(rows, application_id, question_index, metrics) ==
    {IF HasKey(row, application_id, question_index)
     THEN [row EXCEPT !.audio_transcript = metrics.transcript,
                      !.face_presence_ratio = metrics.face_presence_ratio,
                      !.camera_engagement_Ratio = metrics.camera_engagement_Ratio,
                      !.yaw_variance = metrics.yaw_variance]
     ELSE row : row \in rows}

\* application_repo.upsert_speech_assessment_and_tag: inserts an empty row if absent
upsert_speech_assessment_and_tag(table, application_id) ==
    IF application_id \in DOMAIN table THEN table
    ELSE table @@ (application_id :> EmptyAssessment)

\* the analyzed_count subquery of list_applications_for_job
analyzed_count(application_id) ==
    Cardinality({row \in video_submissions :
                    /\ row.application_id = application_id
                    /\ row.video_score # NoneInt})

\* analysis_progress and analysis_complete of the application's list entry
analysis_progress(application_id) ==
    progress(analyzed_count(application_id),
             QuestionCount(candidate_applications[application_id].job_id))

(***************************************************************************)
(* receive_video_url                                                       *)
(***************************************************************************)
\* every request is taken to come after a CV submission
has_latest_application_always(latest) == TRUE

\* lines 451-455: _latest_application_id is None
has_latest_application(latest) == latest # 0

\* a handler that schedules the stage whether or not the upsert returned
video_stage_scheduled_always(upserted) == TRUE

\* is the background stage scheduled after upsert_video_metadata returned or raised
video_stage_scheduled(upserted) == upserted

receive_video_url(question_index, file_url, ok) ==
    /\ ~Blocked
    /\ IF ~has_latest_application(latest_application_id)
       THEN /\ response' = Resp("video-url", 400, 0, "none", FALSE)
            /\ UNCHANGED <<video_submissions, video_tasks>>
       ELSE LET application_id == latest_application_id
            IN  /\ video_submissions' =
                       IF ok THEN upsert_video_metadata(video_submissions,
                                      application_id, question_index, file_url)
                       ELSE video_submissions
                /\ video_tasks' =
                       IF video_stage_scheduled(ok)
                       THEN Append(video_tasks,
                                [pc |-> "scheduled", application_id |-> application_id,
                                 question_index |-> question_index,
                                 video_url |-> file_url, metrics |-> NoMetrics])
                       ELSE video_tasks
                /\ response' = IF ok THEN Resp("video-url", 200, application_id, "none", FALSE)
                               ELSE Resp("video-url", 500, 0, "none", FALSE)
    /\ UNCHANGED <<client_calls, recruiter_side, gateway_call, now, candidate_selected_job, latest_application_id, candidates,
                   candidate_applications, ai_assessments, cv_data, cv_requests,
                   cv_tasks, video_files>>

(***************************************************************************)
(* _analyze_video_and_update_db                                            *)
(***************************************************************************)
\* extract_video_metrics of what run_video_full_pipeline returns for the file
VideoMetrics(content, succeeded) ==
    IF succeeded
    THEN [transcript |-> <<content>>, face_presence_ratio |-> 1,
          camera_engagement_Ratio |-> 1, yaw_variance |-> 0]
    ELSE NoMetrics

\* the stage starts: download_and_save_video is synchronous
video_stage_start(t) ==
    /\ ~Blocked
    /\ video_tasks[t].pc = "scheduled"
    /\ video_tasks' = [video_tasks EXCEPT ![t].pc = "downloading"]
    /\ UNCHANGED <<client_calls, recruiter_side, gateway_call, now, candidate_selected_job, latest_application_id, tables,
                   cv_requests, cv_tasks, video_files, response>>

\* lines 370-377: the download writes app<id>_q<index> or raises
video_stage_downloaded(t, ok) ==
    /\ video_tasks[t].pc = "downloading"
    /\ LET f == video_tasks[t]
           key == <<f.application_id, f.question_index>>
       IN  /\ video_files' = IF ok
                             THEN [k \in DOMAIN video_files \cup {key} |->
                                      IF k = key THEN f.video_url ELSE video_files[k]]
                             ELSE video_files
           /\ video_tasks' = [video_tasks EXCEPT ![t].pc =
                                 IF ok THEN "lookup_role" ELSE "done"]
    /\ UNCHANGED <<client_calls, recruiter_side, gateway_call, now, candidate_selected_job, latest_application_id, tables,
                   cv_requests, cv_tasks, response>>

\* lines 380-388: the role look-up; then run_video_full_pipeline is synchronous
video_stage_lookup_role(t) ==
    /\ ~Blocked
    /\ video_tasks[t].pc = "lookup_role"
    /\ video_tasks' = [video_tasks EXCEPT ![t].pc = "inferring"]
    /\ UNCHANGED <<client_calls, recruiter_side, gateway_call, now, candidate_selected_job, latest_application_id, tables,
                   cv_requests, cv_tasks, video_files, response>>

\* lines 390-396: the gateway call on the local file and extract_video_metrics
video_stage_analyzed(t, succeeded) ==
    /\ video_tasks[t].pc = "inferring"
    /\ LET f == video_tasks[t]
       IN  video_tasks' = [video_tasks EXCEPT ![t] =
               [f EXCEPT !.pc = "update_metrics",
                         !.metrics = VideoMetrics(
                              video_files[<<f.application_id, f.question_index>>],
                              succeeded)]]
    /\ UNCHANGED <<client_calls, recruiter_side, gateway_call, now, candidate_selected_job, latest_application_id, tables,
                   cv_requests, cv_tasks, video_files, response>>

\* lines 399-413: update_video_analysis_fields; an exception is logged
video_stage_update_metrics(t, ok) ==
    /\ ~Blocked
    /\ video_tasks[t].pc = "update_metrics"
    /\ LET f == video_tasks[t]
        IN  /\ video_submissions' =
                   IF ok THEN update_video_analysis_fields(video_submissions,
                                  f.application_id, f.question_index, f.metrics)
                   ELSE video_submissions
    /\ video_tasks' = [video_tasks EXCEPT ![t].pc = "upsert_speech"]
    /\ UNCHANGED <<client_calls, recruiter_side, gateway_call, now, candidate_selected_job, latest_application_id, candidates,
                   candidate_applications, ai_assessments, cv_data, cv_requests,
                   cv_tasks, video_files, response>>

\* lines 416-431: the legacy assessment update; an exception is logged
video_stage_upsert_speech(t, ok) ==
    /\ ~Blocked
    /\ video_tasks[t].pc = "upsert_speech"
    /\ ai_assessments' =
               IF ok THEN upsert_speech_assessment_and_tag(
                              ai_assessments, video_tasks[t].application_id)
               ELSE ai_assessments
    /\ video_tasks' = [video_tasks EXCEPT ![t].pc = "done"]
    /\ UNCHANGED <<client_calls, recruiter_side, gateway_call, now, candidate_selected_job, latest_application_id, candidates,
                   candidate_applications, cv_data, video_submissions, cv_requests,
                   cv_tasks, video_files, response>>

(***************************************************************************)
(* run_cv_jd_analysis: the retry loop around client.predict.               *)
(***************************************************************************)
\* what one call of client.predict can do
AttemptOutcomes == {"connection_error", "other_error", "parse_marker", "ok"}

\* _is_connection_error on the exception of an attempt
is_connection_error(outcome) == outcome = "connection_error"

\* str(e) of the exception of an attempt
ErrorText(outcome) ==
    IF is_connection_error(outcome) THEN <<"connection", " ", "reset">>
    ELSE <<"bad", " ", "request">>

\* _normalize_result of what the attempt returned
normalize_result(outcome) ==
    IF outcome = "ok" THEN ScoredResult ELSE NormalizedUnparsed

\* only the first failure is retried
retry_first_only(attempt, max_retries) == attempt < 1

\* lines 198 and 207: attempt < max_retries - 1
retry_allowed(attempt, max_retries) == attempt < max_retries - 1

\* every retry waits
delay_before_retry_always(outcome) == TRUE

\* only a retry after a connection-class error waits
delay_before_retry_connection(outcome) == is_connection_error(outcome)

\* lines 196-199 and 206-208: a retry after an exception sleeps first, a
\* retry after a parse-failure marker continues at once
delay_before_retry(outcome) == outcome # "parse_marker"

\* lines 166-181: the file check and the construction of the client, which
\* connects to the gateway and can raise
run_cv_jd_analysis_begin(file_exists, client_ok) ==
    /\ gateway_call.pc = "idle"
    /\ gateway_call' =
           IF ~file_exists
           THEN GatewayFrame("returned", 0, <<>>, 0,
                             ErrorResult(<<"CV", " ", "file", " ", "not", " ", "found">>))
           ELSE IF ~client_ok
           THEN GatewayFrame("raised", 0, <<>>, 0, NormalizedUnparsed)
           ELSE GatewayFrame("attempting", 0, <<>>, 0, NormalizedUnparsed)
    /\ UNCHANGED <<client_calls, recruiter_side, now, candidate_selected_job, latest_application_id,
                   tables, cv_requests, cv_tasks, video_tasks, video_files, response>>

\* lines 185-219: one pass of the loop body for the outcome of client.predict;
\* the last pass returns, so the code after the loop is not reached
run_cv_jd_analysis_attempt(outcome) ==
    /\ gateway_call.pc = "attempting"
    /\ gateway_call.attempt < MAX_RETRIES
    /\ LET f == gateway_call
           history == Append(f.history, outcome)
       IN  gateway_call' =
             IF outcome = "ok"
             THEN GatewayFrame("returned", f.attempt, history, f.sleeps,
                               normalize_result(outcome))
             ELSE IF retry_allowed(f.attempt, MAX_RETRIES)
             THEN IF delay_before_retry(outcome)
                  THEN GatewayFrame("sleeping", f.attempt, history, f.sleeps + 1,
                                    f.result)
                  ELSE GatewayFrame("attempting", f.attempt + 1, history, f.sleeps,
                                    f.result)
             ELSE IF outcome = "parse_marker"
                  THEN GatewayFrame("returned", f.attempt, history, f.sleeps,
                                    normalize_result(outcome))
                  ELSE GatewayFrame("returned", f.attempt, history, f.sleeps,
                                    ErrorResult(ErrorText(outcome)))
    /\ UNCHANGED <<client_calls, recruiter_side, now, candidate_selected_job, latest_application_id,
                   tables, cv_requests, cv_tasks, video_tasks, video_files, response>>

\* lines 208-209: time.sleep(CONNECT_RETRY_DELAY_SEC) returns, continue
run_cv_jd_analysis_slept ==
    /\ gateway_call.pc = "sleeping"
    /\ gateway_call' = [gateway_call EXCEPT !.pc = "attempting",
                                            !.attempt = gateway_call.attempt + 1]
    /\ UNCHANGED <<client_calls, recruiter_side, now, candidate_selected_job, latest_application_id,
                   tables, cv_requests, cv_tasks, video_tasks, video_files, response>>

(***************************************************************************)
(* run_video_full_pipeline: the retry loop around requests.post.           *)
(***************************************************************************)
\* what one pass of the loop can meet: requests.post raises a
\* RequestException of the connection class or another exception, the
\* response has an error status, its body is not JSON (resp.json() raises),
\* or it is a success with a JSON body, which may carry a parse-failure
\* marker of the model in one of its fields; the body of a response with an
\* error status that is announced as JSON is decoded too (line 219), and
\* resp.json() raises when it is not JSON
VideoAttemptOutcomes ==
    {"connection_error", "other_error", "invalid_json", "http_error",
     "http_error_invalid_json", "parse_marker", "ok"}

\* lines 231 and 240: attempt < VIDEO_MAX_RETRIES - 1
video_retry_allowed(attempt) == attempt < VIDEO_MAX_RETRIES - 1

\* lines 193-202: the file check; nothing before the loop can raise
run_video_full_pipeline_begin(file_exists) ==
    /\ video_call.pc = "idle"
    /\ video_call' =
           IF ~file_exists
           THEN GatewayFrame("returned", 0, <<>>, 0,
                             VideoErrorResult(<<"Video", " ", "file", " ", "not", " ", "found">>))
           ELSE GatewayFrame("attempting", 0, <<>>, 0, video_call.result)
    /\ UNCHANGED <<normalize_call, recruiter_side, gateway_call, now,
                   candidate_selected_job, latest_application_id, tables,
                   cv_requests, cv_tasks, video_tasks, video_files, response>>

\* lines 204-245: one pass of the loop body
run_video_full_pipeline_attempt(outcome) ==
    /\ video_call.pc = "attempting"
    /\ video_call.attempt < VIDEO_MAX_RETRIES
    /\ LET f == video_call
           history == Append(f.history, outcome)
       IN  video_call' =
             IF outcome \in {"ok", "parse_marker"}
             THEN GatewayFrame("returned", f.attempt, history, f.sleeps,
                               VideoNormalizedResult)
             ELSE IF outcome = "http_error"
             THEN GatewayFrame("returned", f.attempt, history, f.sleeps,
                               VideoErrorResult(<<"HTTP", " ", "error">>))
             ELSE IF video_retry_allowed(f.attempt)
                  THEN GatewayFrame("sleeping", f.attempt, history, f.sleeps + 1,
                                    f.result)
                  ELSE GatewayFrame("returned", f.attempt, history, f.sleeps,
                                    VideoErrorResult(ErrorText(outcome)))
    /\ UNCHANGED <<normalize_call, recruiter_side, gateway_call, now,
                   candidate_selected_job, latest_application_id, tables,
                   cv_requests, cv_tasks, video_tasks, video_files, response>>

\* lines 232-234 and 241-243: time.sleep(VIDEO_RETRY_DELAY_SEC) returns, continue
run_video_full_pipeline_slept ==
    /\ video_call.pc = "sleeping"
    /\ video_call' = [video_call EXCEPT !.pc = "attempting",
                                        !.attempt = video_call.attempt + 1]
    /\ UNCHANGED <<normalize_call, recruiter_side, gateway_call, now,
                   candidate_selected_job, latest_application_id, tables,
                   cv_requests, cv_tasks, video_tasks, video_files, response>>

(***************************************************************************)
(* _normalize_result applied to the payloads a scorer can send.            *)
(***************************************************************************)
\* the spellings of the score key and of the e-mail key
ScoreKeys == {<<"Total", " ", "Score">>, <<"Total", "_", "score">>}
EmailKeys == {<<"Email", "_", "Address">>, <<"email">>}

\* scores as fractions (0.76, 0.82, 0.0, 1.0), as a float percentage (76.0),
\* as ints, as strs and missing
ScoreValues ==
    {PyFloat(76), PyFloat(82), PyFloat(0), PyFloat(100), PyFloat(7600),
     PyInt(76), PyInt(150), PyInt(-5), PyStr(<<"76">>), PyStr(<<"abc">>), PyNone}

EmailValues == {PyStr(<<"a@b.com">>), PyStr(<<" ", "a@b.com">>)}

PayloadItems ==
    {<<k, v>> : k \in ScoreKeys, v \in ScoreValues}
        \cup {<<k, v>> : k \in EmailKeys, v \in EmailValues}

RawPayloads == UNION {[1..n -> PayloadItems] : n \in 0..MaxPayloadKeys}

\* one call of _normalize_result on a dict
normalize_result_call(data) ==
    /\ normalize_call' = NormalizeCall(data, normalize_dict(data))
    /\ UNCHANGED <<video_call, recruiter_side, gateway_call, now,
                   candidate_selected_job, latest_application_id, tables,
                   cv_requests, cv_tasks, video_tasks, video_files, response>>

(***************************************************************************)
(* record_recruiter_decision                                               *)
(***************************************************************************)
Decisions == {"accept", "reject", "interview"}

\* what a caller can pass as decision
DecisionInputs == Decisions \cup {"maybe"}

\* an interview invitation that puts the application back in the queue
status_map_requeue(decision) ==
    IF decision = "accept" THEN "accepted"
    ELSE IF decision = "reject" THEN "rejected"
    ELSE "pending"

\* lines 311-315: status_map
status_map(decision) ==
    IF decision = "accept" THEN "accepted"
    ELSE IF decision = "reject" THEN "rejected"
    ELSE "sent_to_interview"

\* lines 337-341: UPDATE candidate_applications SET status WHERE application_id
update_application_status(table, application_id, status_value) ==
    IF application_id \in DOMAIN table
    THEN [table EXCEPT ![application_id].status = status_value]
    ELSE table

DecisionRow(application_id, recruiter_id, final_decision, overrode_ai, decision_date) ==
    [application_id |-> application_id, recruiter_id |-> recruiter_id,
     final_decision |-> final_decision, overrode_ai |-> overrode_ai,
     decision_date |-> decision_date]

\* an INSERT without the conflict clause on a table without the unique index
insert_recruiter_decision(rows, application_id, recruiter_id, final_decision, at) ==
    rows \cup {DecisionRow(application_id, recruiter_id, final_decision, FALSE, at)}

\* lines 342-354: INSERT ... ON CONFLICT (application_id) DO UPDATE SET
\* recruiter_id, final_decision, decision_date = NOW()
upsert_recruiter_decision(rows, application_id, recruiter_id, final_decision, at) ==
    IF \E row \in rows : row.application_id = application_id
    THEN {IF row.application_id = application_id
          THEN [row EXCEPT !.recruiter_id = recruiter_id,
                           !.final_decision = final_decision,
                           !.decision_date = at]
          ELSE row : row \in rows}
    ELSE rows \cup {DecisionRow(application_id, recruiter_id, final_decision, FALSE, at)}

\* the frame of a call: reads and writes count the store statements it has
\* completed, result is what the caller gets
DecisionFrame(pc, application_id, decision, job_id, recruiter_id, reads, writes, result) ==
    [pc |-> pc, application_id |-> application_id, decision |-> decision,
     job_id |-> job_id, recruiter_id |-> recruiter_id, reads |-> reads,
     writes |-> writes, result |-> result]

\* the recruiter row of the job is found whatever the jobs table holds
recruiter_resolved_always(job_id) == TRUE

\* lines 328-334: the recruiter of the application's job is found
recruiter_resolved(job_id) == job_id \in DOMAIN jobs

\* lines 316-318: the decision is checked before the store is used
record_recruiter_decision_begin(application_id, decision) ==
    /\ ~Blocked
    /\ decision_calls' = Append(decision_calls,
           IF decision \notin Decisions
           THEN DecisionFrame("done", application_id, decision, 0, NoneInt, 0, 0, "invalid")
           ELSE DecisionFrame("select_application", application_id, decision, 0,
                              NoneInt, 0, 0, "none"))
    /\ UNCHANGED <<flow_state, tables, jobs, recruiter_decisions, job_call,
                   progress_call, assessment_call>>

\* lines 322-327: the application row is read; None when there is none
record_recruiter_decision_select_application(c, ok) ==
    /\ ~Blocked
    /\ decision_calls[c].pc = "select_application"
    /\ LET f == decision_calls[c]
       IN  decision_calls' = [decision_calls EXCEPT ![c] =
               IF ~ok THEN [f EXCEPT !.pc = "done", !.result = "raised"]
               ELSE IF f.application_id \notin DOMAIN candidate_applications
               THEN [f EXCEPT !.pc = "done", !.reads = f.reads + 1, !.result = "null"]
               ELSE [f EXCEPT !.pc = "select_recruiter", !.reads = f.reads + 1,
                              !.job_id = candidate_applications[f.application_id].job_id]]
    /\ UNCHANGED <<flow_state, tables, jobs, recruiter_decisions, job_call,
                   progress_call, assessment_call>>

\* lines 328-335: the recruiter of the job is read; None when there is none
record_recruiter_decision_select_recruiter(c, ok) ==
    /\ ~Blocked
    /\ decision_calls[c].pc = "select_recruiter"
    /\ LET f == decision_calls[c]
       IN  decision_calls' = [decision_calls EXCEPT ![c] =
               IF ~ok THEN [f EXCEPT !.pc = "done", !.result = "raised"]
               ELSE IF ~recruiter_resolved(f.job_id)
               THEN [f EXCEPT !.pc = "done", !.reads = f.reads + 1, !.result = "null"]
               ELSE [f EXCEPT !.pc = "update_status", !.reads = f.reads + 1,
                              !.recruiter_id = IF f.job_id \in DOMAIN jobs
                                               THEN jobs[f.job_id].recruiter_id
                                               ELSE NoneInt]]
    /\ UNCHANGED <<flow_state, tables, jobs, recruiter_decisions, job_call,
                   progress_call, assessment_call>>

\* lines 337-341: the first write, the status of the application
record_recruiter_decision_update_status(c, ok) ==
    /\ ~Blocked
    /\ decision_calls[c].pc = "update_status"
    /\ LET f == decision_calls[c]
       IN  IF ok
           THEN /\ candidate_applications' = update_application_status(
                       candidate_applications, f.application_id, status_map(f.decision))
                /\ decision_calls' = [decision_calls EXCEPT ![c] =
                       [f EXCEPT !.pc = "upsert_decision", !.writes = f.writes + 1]]
           ELSE /\ decision_calls' = [decision_calls EXCEPT ![c] =
                       [f EXCEPT !.pc = "done", !.result = "raised"]]
                /\ UNCHANGED candidate_applications
    /\ UNCHANGED <<flow_state, candidates, ai_assessments, cv_data, video_submissions,
                   jobs, recruiter_decisions, job_call, progress_call, assessment_call>>

\* lines 342-355: the second write, the audit row, and the returned dict
record_recruiter_decision_upsert_decision(c, ok) ==
    /\ ~Blocked
    /\ decision_calls[c].pc = "upsert_decision"
    /\ LET f == decision_calls[c]
       IN  IF ok
           THEN /\ recruiter_decisions' = upsert_recruiter_decision(
                       recruiter_decisions, f.application_id, f.recruiter_id,
                       f.decision, now)
                /\ decision_calls' = [decision_calls EXCEPT ![c] =
                       [f EXCEPT !.pc = "done", !.writes = f.writes + 1,
                                 !.result = "ok"]]
           ELSE /\ decision_calls' = [decision_calls EXCEPT ![c] =
                       [f EXCEPT !.pc = "done", !.result = "raised"]]
                /\ UNCHANGED recruiter_decisions
    /\ UNCHANGED <<flow_state, tables, jobs, job_call, progress_call, assessment_call>>

\* the steps of the calls of record_recruiter_decision in flight
RecordDecisionSteps(outcomes) ==
    \E c \in DOMAIN decision_calls, ok \in outcomes :
        \/ record_recruiter_decision_select_application(c, ok)
        \/ record_recruiter_decision_select_recruiter(c, ok)
        \/ record_recruiter_decision_update_status(c, ok)
        \/ record_recruiter_decision_upsert_decision(c, ok)

\* job_repo.delete_job: DELETE FROM jobs WHERE job_id. The schema is not part
\* of the source: the statement removes the row, or it raises because rows
\* of other tables refer to the job.
delete_job(job_id, ok) ==
    /\ ~Blocked
    /\ job_id \in DOMAIN jobs
    /\ jobs' = IF ok THEN [j \in DOMAIN jobs \ {job_id} |-> jobs[j]] ELSE jobs
    /\ job_call' = JobCall("delete", job_id, 0, 0, IF ok THEN "deleted" ELSE "raised")
    /\ UNCHANGED <<flow_state, tables, recruiter_decisions, decision_calls,
                   progress_call, assessment_call>>

(***************************************************************************)
(* upsert_cv_jd_assessment applied to stores that hold older rows.         *)
(***************************************************************************)
\* the applications of a store that was filled before the process started
AssessedApplications == 1..MaxAssessedApplications

\* the ai_assessments tables such a store can hold
AssessmentTables ==
    UNION {[S -> {EmptyAssessment, LegacyAssessment}] : S \in SUBSET AssessedApplications}

\* the payloads _download_and_analyze_cv builds
AssessmentPayloads ==
    {analysis_locals(ScheduledCvTask("cv1", 1), analysis).payload : analysis \in CvAnalyses}

AssessmentInit ==
    /\ now = 0
    /\ candidate_selected_job = [k \in {"default", "s1"} |-> 0]
    /\ latest_application_id = 0
    /\ candidates = [a \in AssessedApplications |->
                        [full_name |-> NoneStr, email |-> NoneStr, phone |-> NoneStr,
                         address |-> NoneStr]]
    /\ candidate_applications = [a \in AssessedApplications |->
                        [candidate_id |-> a, job_id |-> 1, status |-> "pending"]]
    /\ ai_assessments \in AssessmentTables
    /\ cv_data = <<>>
    /\ video_submissions = {}
    /\ cv_requests = <<>>
    /\ cv_tasks = <<>>
    /\ video_tasks = <<>>
    /\ video_files = <<>>
    /\ response = NoResponse
    /\ gateway_call = NoGatewayCall
    /\ jobs = SeededJobs
    /\ recruiter_decisions = {}
    /\ decision_calls = <<>>
    /\ job_call = NoJobCall
    /\ progress_call = NoProgressCall
    /\ assessment_call = NoAssessmentCall
    /\ normalize_call = NoNormalizeCall
    /\ video_call = NoVideoCall

\* one call of upsert_cv_jd_assessment
upsert_cv_jd_assessment_call(application_id, payload) ==
    /\ ai_assessments' = upsert_cv_jd_assessment(ai_assessments, application_id, payload)
    /\ assessment_call' = [application_id |-> application_id, payload |-> payload]
    /\ UNCHANGED <<flow_state, candidates, candidate_applications, cv_data,
                   video_submissions, jobs, recruiter_decisions, decision_calls,
                   job_call, progress_call>>

AssessmentNext ==
    \E application_id \in AssessedApplications, payload \in AssessmentPayloads :
        upsert_cv_jd_assessment_call(application_id, payload)

AssessmentSpec == AssessmentInit /\ [][AssessmentNext]_vars

(***************************************************************************)
(* create_job, update_job                                                  *)
(***************************************************************************)
\* the weightages a recruiter can send
Weightages == {-10, 0, 40, 60, 100, 150}

\* each weightage is checked to be a percentage
validate_weightage_in_range(cv_score_weightage, video_score_weightage) ==
    cv_score_weightage \in 0..100 /\ video_score_weightage \in 0..100

\* _validate_weightage_sum_100: TRUE when it returns, FALSE when it raises
validate_weightage_sum_100(cv_score_weightage, video_score_weightage) ==
    cv_score_weightage + video_score_weightage = 100

\* the job_id the INSERT assigns
NextJobId ==
    IF DOMAIN jobs = {} THEN 1
    ELSE 1 + CHOOSE j \in DOMAIN jobs : \A k \in DOMAIN jobs : k <= j

\* job_repo.create_job: the validation, then the INSERT
create_job(recruiter_id, cv_score_weightage, video_score_weightage, ok) ==
    /\ ~Blocked
    /\ IF ~validate_weightage_sum_100(cv_score_weightage, video_score_weightage)
       THEN /\ job_call' = JobCall("create", 0, cv_score_weightage,
                                   video_score_weightage, "rejected")
            /\ UNCHANGED jobs
       ELSE IF ~ok
       THEN /\ job_call' = JobCall("create", 0, cv_score_weightage,
                                   video_score_weightage, "raised")
            /\ UNCHANGED jobs
       ELSE /\ jobs' = jobs @@ (NextJobId :> JobRow(recruiter_id, cv_score_weightage,
                                                    video_score_weightage))
            /\ job_call' = JobCall("create", NextJobId, cv_score_weightage,
                                   video_score_weightage, "created")
    /\ UNCHANGED <<flow_state, tables, recruiter_decisions, decision_calls,
                   progress_call, assessment_call>>

\* job_repo.update_job: the validation, then UPDATE jobs ... WHERE job_id
update_job(job_id, cv_score_weightage, video_score_weightage, ok) ==
    /\ ~Blocked
    /\ IF ~validate_weightage_sum_100(cv_score_weightage, video_score_weightage)
       THEN /\ job_call' = JobCall("update", job_id, cv_score_weightage,
                                   video_score_weightage, "rejected")
            /\ UNCHANGED jobs
       ELSE IF ~ok
       THEN /\ job_call' = JobCall("update", job_id, cv_score_weightage,
                                   video_score_weightage, "raised")
            /\ UNCHANGED jobs
       ELSE IF job_id \notin DOMAIN jobs
       THEN /\ job_call' = JobCall("update", job_id, cv_score_weightage,
                                   video_score_weightage, "not_found")
            /\ UNCHANGED jobs
       ELSE /\ jobs' = [jobs EXCEPT ![job_id].cv_score_weightage = cv_score_weightage,
                                    ![job_id].video_score_weightage = video_score_weightage]
            /\ job_call' = JobCall("update", job_id, cv_score_weightage,
                                   video_score_weightage, "updated")
    /\ UNCHANGED <<flow_state, tables, recruiter_decisions, decision_calls,
                   progress_call, assessment_call>>

\* recruiters create and edit jobs with any pair of weightages
JobNext ==
    \/ /\ Cardinality(DOMAIN jobs) < MaxJobs
       /\ \E c \in Weightages, v \in Weightages, ok \in StoreOutcomes :
              create_job(1, c, v, ok)
    \/ \E j \in 1..MaxJobs, c \in Weightages, v \in Weightages, ok \in StoreOutcomes :
           update_job(j, c, v, ok)

JobSpec == Init /\ [][JobNext]_vars

(***************************************************************************)
(* _progress applied to counts of analyzed answers and of questions.       *)
(***************************************************************************)
\* one evaluation of _progress; on the counts of ProgressCounts the float
\* quotient of the code rounds as the exact quotient does
progress_applied(analyzed, total_questions) ==
    /\ progress_call' = ProgressCall(analyzed, total_questions,
                                     progress(analyzed, total_questions))
    /\ UNCHANGED <<flow_state, tables, jobs, recruiter_decisions, decision_calls,
                   job_call, assessment_call>>

\* the counts _progress is applied to: the small ones, and a large question
\* count with all or all but one of its answers analyzed
ProgressCounts ==
    (0..MaxProgressQuestions) \cup {LargeQuestionCount - 1, LargeQuestionCount}

ProgressNext ==
    \E analyzed \in ProgressCounts,
       total_questions \in (0..MaxProgressQuestions) \cup {LargeQuestionCount} :
        progress_applied(analyzed, total_questions)

ProgressSpec == Init /\ [][ProgressNext]_vars

(***************************************************************************)
(* Process restart: the module-level state is re-initialised, the          *)
(* coroutines and background tasks in flight are abandoned, the store and  *)
(* the files stay.                                                         *)
(***************************************************************************)
process_restart ==
    /\ candidate_selected_job' = [k \in DOMAIN candidate_selected_job |-> 0]
    /\ latest_application_id' = 0
    /\ cv_requests' = [r \in DOMAIN cv_requests |-> CvRequestDone]
    /\ cv_tasks' = [a \in DOMAIN cv_tasks |->
                       IF cv_tasks[a].pc = "done" THEN cv_tasks[a]
                       ELSE [cv_tasks[a] EXCEPT !.pc = "abandoned"]]
    /\ video_tasks' = [t \in DOMAIN video_tasks |->
                          IF video_tasks[t].pc = "done" THEN video_tasks[t]
                          ELSE [video_tasks[t] EXCEPT !.pc = "abandoned"]]
    /\ decision_calls' = [c \in DOMAIN decision_calls |->
                             IF decision_calls[c].pc = "done" THEN decision_calls[c]
                             ELSE [decision_calls[c] EXCEPT !.pc = "done",
                                                            !.result = "abandoned"]]
    /\ UNCHANGED <<client_calls, gateway_call, now, tables, video_files, response, jobs,
                   recruiter_decisions, job_call, progress_call, assessment_call>>

(***************************************************************************)
(* The pipeline.                                                           *)
(***************************************************************************)
\* the steps of the receive_cv_url coroutines in flight
SubmitCvSteps(outcomes) ==
    \/ \E r \in DOMAIN cv_requests, ok \in outcomes :
           receive_cv_url_create_application(r, ok)
    \/ \E r \in DOMAIN cv_requests, ok \in outcomes :
           receive_cv_url_insert_assessment(r, ok)
    \/ \E r \in DOMAIN cv_requests, ok \in outcomes : receive_cv_url_insert_cv(r, ok)

\* at most limit calls of receive_cv_url, with the given CV URLs and store outcomes
SubmitCv(limit, urls, outcomes) ==
    \/ /\ Len(cv_requests) < limit
       /\ \E u \in urls, ok \in outcomes : receive_cv_url_begin(u, ok)
    \/ SubmitCvSteps(outcomes)

\* the CV-analysis stage with the given results of its synchronous part
CvStage(results, outcomes) ==
    \/ \E a \in DOMAIN cv_tasks : cv_stage_start(a)
    \/ \E a \in DOMAIN cv_tasks, o \in results : cv_stage_analyzed(a, o)
    \/ \E a \in DOMAIN cv_tasks, ok \in outcomes : cv_stage_update_candidate(a, ok)
    \/ \E a \in DOMAIN cv_tasks, ok \in outcomes : cv_stage_update_cv_analysis(a, ok)
    \/ \E a \in DOMAIN cv_tasks, ok \in outcomes : cv_stage_upsert_assessment(a, ok)

\* the video-analysis stage
VideoStage(outcomes) ==
    \/ \E t \in DOMAIN video_tasks : video_stage_start(t)
    \/ \E t \in DOMAIN video_tasks, ok \in BOOLEAN : video_stage_downloaded(t, ok)
    \/ \E t \in DOMAIN video_tasks : video_stage_lookup_role(t)
    \/ \E t \in DOMAIN video_tasks, ok \in BOOLEAN : video_stage_analyzed(t, ok)
    \/ \E t \in DOMAIN video_tasks, ok \in outcomes : video_stage_update_metrics(t, ok)
    \/ \E t \in DOMAIN video_tasks, ok \in outcomes : video_stage_upsert_speech(t, ok)

\* resubmissions: CVs with any URL for any job, a stage that succeeds
ResubmitNext ==
    \/ \E j \in Jobs : set_candidate_selected_job("", j)
    \/ SubmitCv(MaxSubmits, CvUrls, StoreOutcomes)
    \/ CvStage({[kind |-> "analysis", analysis |-> ScoredResult]}, {TRUE})

ResubmitSpec == Init /\ [][ResubmitNext]_vars

\* recruiter decisions on the applications of fault-free CV submissions,
\* with store failures and a job that is deleted
DecisionNext ==
    \/ set_candidate_selected_job("", 1)
    \/ /\ Len(cv_requests) < MaxDecidedApplications
       /\ receive_cv_url_begin("cv1", TRUE)
    \/ SubmitCvSteps({TRUE})
    \/ /\ Len(decision_calls) < MaxDecisions
       /\ \E a \in 1..(MaxDecidedApplications + 1), d \in DecisionInputs :
              record_recruiter_decision_begin(a, d)
    \/ RecordDecisionSteps(StoreOutcomes)
    \/ \E ok \in StoreOutcomes : delete_job(1, ok)

DecisionSpec == Init /\ [][DecisionNext]_vars

\* job selections and look-ups of several sessions, and CV submissions
SessionNext ==
    \/ \E session_id \in SessionIds, job_id \in Jobs :
           set_candidate_selected_job(session_id, job_id)
    \/ \E session_id \in SessionIds : get_candidate_selected_job(session_id)
    \/ SubmitCv(MaxSubmits, {"cv1"}, {TRUE})
    \/ process_restart

SessionSpec == Init /\ [][SessionNext]_vars

\* calls of run_cv_jd_analysis against a gateway that answers, fails or
\* returns what cannot be parsed
GatewayNext ==
    \/ \E file_exists, client_ok \in BOOLEAN :
           run_cv_jd_analysis_begin(file_exists, client_ok)
    \/ \E outcome \in AttemptOutcomes : run_cv_jd_analysis_attempt(outcome)
    \/ run_cv_jd_analysis_slept

GatewaySpec == Init /\ [][GatewayNext]_vars

\* calls of run_video_full_pipeline against a gateway that answers or fails
VideoGatewayNext ==
    \/ \E file_exists \in BOOLEAN : run_video_full_pipeline_begin(file_exists)
    \/ \E outcome \in VideoAttemptOutcomes : run_video_full_pipeline_attempt(outcome)
    \/ run_video_full_pipeline_slept

VideoGatewaySpec == Init /\ [][VideoGatewayNext]_vars

\* a call of each of the two gateway operations
ClientsNext == GatewayNext \/ VideoGatewayNext

ClientsSpec == Init /\ [][ClientsNext]_vars

\* _normalize_result on every payload of RawPayloads
NormalizeNext == \E data \in RawPayloads : normalize_result_call(data)

NormalizeSpec == Init /\ [][NormalizeNext]_vars

\* submit CV and the CV-analysis stage under store failures and restarts
Next ==
    \/ set_candidate_selected_job("", 1)
    \/ SubmitCv(MaxSubmits, {"cv1"}, StoreOutcomes)
    \/ CvStage(CvStageOutcomes, StoreOutcomes)
    \/ process_restart

Spec == Init /\ [][Next]_vars

\* interview videos for the applications of fault-free CV submissions, each
\* CV submitted after the response to the one before
VideoNext ==
    \/ set_candidate_selected_job("", 1)
    \/ /\ Len(cv_requests) < MaxVideoFlows
       /\ \A r \in DOMAIN cv_requests : cv_requests[r].pc = "done"
       /\ receive_cv_url_begin("cv1", TRUE)
    \/ \E r \in DOMAIN cv_requests : receive_cv_url_create_application(r, TRUE)
    \/ \E r \in DOMAIN cv_requests : receive_cv_url_insert_assessment(r, TRUE)
    \/ \E r \in DOMAIN cv_requests, ok \in StoreOutcomes : receive_cv_url_insert_cv(r, ok)
    \/ CvStage({[kind |-> "analysis", analysis |-> ScoredResult]}, {TRUE})
    \/ /\ Len(video_tasks) < MaxVideoSubmits
       /\ \E q \in QuestionIndexes, u \in VideoUrls, ok \in StoreOutcomes :
              receive_video_url(q, u, ok)
    \/ VideoStage(StoreOutcomes)

VideoSpec == Init /\ [][VideoNext]_vars

\* the clock reaches its horizon after the last request was handled
TickBeforeHorizon ==
    /\ now < Horizon
    /\ NextInstant < Horizon \/ \A r \in DOMAIN cv_requests : cv_requests[r].pc = "done"
    /\ Tick

\* analysis-status polls while the clock advances
StatusNext ==
    \/ TickBeforeHorizon
    \/ set_candidate_selected_job("", 1)
    \/ now < Horizon /\ SubmitCv(MaxPolledSubmits, {"cv1"}, StoreOutcomes)
    \/ CvStage(CvStageOutcomes, StoreOutcomes)
    \/ \E call \in StatusStoreCalls : candidate_analysis_status(call)
    \/ process_restart

StatusSpec == Init /\ [][StatusNext]_vars

\* a status check whose store call returns in time
HealthyCall == [latency |-> 1, raises |-> FALSE]

\* the clock advances, the event loop runs every coroutine that can take a
\* step, and the client keeps polling a store that answers
LiveStatusSpec ==
    /\ StatusSpec
    /\ WF_vars(TickBeforeHorizon)
    /\ WF_vars(now < Horizon /\ SubmitCvSteps(StoreOutcomes))
    /\ WF_vars(CvStage(CvStageOutcomes, StoreOutcomes))
    /\ WF_vars(candidate_analysis_status(HealthyCall))

\* what the scorer sends for a CV it can read: a score of 0.82 and a name,
\* under two spellings of the keys
ScorerPayloads ==
    {<< <<k, PyFloat(82)>>, <<n, PyStr(<<"A. Khan">>)>> >> :
        k \in ScoreKeys, n \in {<<"name">>, <<"Name">>}}

\* line 201: the analysis run_cv_jd_analysis returns for such a payload
ScorerAnalyses ==
    {[kind |-> "analysis", analysis |-> normalize_dict(p)] : p \in ScorerPayloads}

\* CV submissions whose stage gets a scored payload, a healthy store and a
\* client that polls
ScorerNext ==
    \/ set_candidate_selected_job("", 1)
    \/ SubmitCv(MaxSubmits, {"cv1"}, {TRUE})
    \/ CvStage(ScorerAnalyses, {TRUE})
    \/ candidate_analysis_status(HealthyCall)

ScorerSpec == Init /\ [][ScorerNext]_vars

(***************************************************************************)
(* candidate_review and the profile fields the CV stage extracts.          *)
(***************************************************************************)
\* candidate_repo.update_candidate_review: the four fields are overwritten,
\* an empty value by NULL
update_candidate_review(table, candidate_id, reviewed) ==
    IF candidate_id \notin DOMAIN table THEN table
    ELSE [table EXCEPT ![candidate_id] =
             [full_name |-> OrNone(Strip(OrEmpty(reviewed[1]))),
              email |-> OrNone(Strip(OrEmpty(reviewed[2]))),
              phone |-> OrNone(Strip(OrEmpty(reviewed[3]))),
              address |-> OrNone(Strip(OrEmpty(reviewed[4])))]]

\* candidate_routes.py lines 218-239; the application row read between the
\* slot and the update is never changed by any operation
candidate_review(reviewed, ok) ==
    /\ ~Blocked
    /\ LET app_id == latest_application_id
       IN  IF app_id = 0
           THEN /\ response' = Resp("review", 400, 0, "none", FALSE)
                /\ UNCHANGED candidates
           ELSE IF app_id \notin DOMAIN candidate_applications
           THEN /\ response' = Resp("review", 404, 0, "none", FALSE)
                /\ UNCHANGED candidates
           ELSE IF ~ok
           THEN /\ response' = Resp("review", 500, 0, "none", FALSE)
                /\ UNCHANGED candidates
           ELSE /\ candidates' = update_candidate_review(candidates,
                                     candidate_applications[app_id].candidate_id,
                                     reviewed)
                /\ response' = Resp("review", 200, app_id, "none", FALSE)
    /\ UNCHANGED <<client_calls, recruiter_side, gateway_call, now,
                   candidate_selected_job, latest_application_id,
                   candidate_applications, ai_assessments, cv_data,
                   video_submissions, cv_requests, cv_tasks, video_tasks,
                   video_files>>

\* candidate_routes.py lines 190-208: the profile of the candidate of the
\* application in the slot; both store calls only read
candidate_overview ==
    /\ ~Blocked
    /\ response' = Resp("overview", 200, latest_application_id, "none", FALSE)
    /\ UNCHANGED <<client_calls, recruiter_side, gateway_call, now,
                   candidate_selected_job, latest_application_id, tables,
                   cv_requests, cv_tasks, video_tasks, video_files>>

\* what the review form sends: name and e-mail kept or cleared
ReviewedInfos ==
    {<<n, e, <<"old">>, <<"old">> >> : n \in {EmptyStr, <<"old">>},
                                        e \in {EmptyStr, <<"old">>}}

\* analyses whose profile fields are values, blanks and placeholders
ProfileAnalyses ==
    {[ScoredResult EXCEPT !.name = n, !.email = e, !.phone_number = ph,
                          !.address = <<"Not", " ", "provided">>] :
        n \in {EmptyStr, <<"N/A">>, <<"Not", " ", "provided">>, <<"None">>,
               <<" ", "A">>},
        e \in {<<"N/A">>, <<" ", "A">>},
        ph \in {EmptyStr, <<" ", "A">>}}

\* CV submissions, one after the stage of the other has ended, whose
\* candidate saves reviewed information before, during or after the stage
ProfileNext ==
    \/ set_candidate_selected_job("", 1)
    \/ /\ Len(cv_requests) < MaxProfiledSubmits
       /\ \A a \in DOMAIN cv_tasks : cv_tasks[a].pc = "done"
       /\ \A r \in DOMAIN cv_requests : cv_requests[r].pc = "done"
       /\ receive_cv_url_begin("cv1", TRUE)
    \/ SubmitCvSteps({TRUE})
    \/ \E reviewed \in ReviewedInfos, ok \in StoreOutcomes :
           candidate_review(reviewed, ok)
    \/ CvStage({[kind |-> "analysis", analysis |-> an] : an \in ProfileAnalyses},
               StoreOutcomes)

ProfileSpec == Init /\ [][ProfileNext]_vars

\* the flows of several candidates in one process: CV submissions whose
\* handlers overlap, and the operations that use the slot
SlotNext ==
    \/ set_candidate_selected_job("", 1)
    \/ SubmitCv(MaxSubmits, {"cv1"}, {TRUE})
    \/ /\ Len(video_tasks) < MaxVideoFlows
       /\ \E q \in QuestionIndexes : receive_video_url(q, "v1", TRUE)
    \/ candidate_overview
    \/ candidate_review(<<EmptyStr, <<"old">>, <<"old">>, <<"old">> >>, TRUE)
    \/ candidate_analysis_status(HealthyCall)

SlotSpec == Init /\ [][SlotNext]_vars

\* the result of the synchronous part of a stage whose download raised
DownloadFailed == [kind |-> "download_failed", analysis |-> ErrorResult(NoneStr)]

\* CV stages whose media fetch fails, after fault-free submissions
FetchFailureNext ==
    \/ set_candidate_selected_job("", 1)
    \/ SubmitCv(MaxSubmits, {"cv1"}, {TRUE})
    \/ \E a \in DOMAIN cv_tasks : cv_stage_start(a)
    \/ \E a \in DOMAIN cv_tasks : cv_stage_analyzed(a, DownloadFailed)
    \/ \E a \in DOMAIN cv_tasks, ok \in StoreOutcomes : cv_stage_update_cv_analysis(a, ok)

FetchFailureSpec == Init /\ [][FetchFailureNext]_vars

(***************************************************************************)
(* The CV stage together with the gateway call it makes.                   *)
(***************************************************************************)
\* candidate_routes.py line 134: run_cv_jd_analysis returned or raised, and
\* the stage goes on with what it got
cv_stage_inferred(a) ==
    /\ gateway_call.pc \in {"returned", "raised"}
    /\ cv_stage_analyzed(a,
           IF gateway_call.pc = "raised"
           THEN [kind |-> "analysis_raised", analysis |-> ErrorResult(NoneStr)]
           ELSE [kind |-> "analysis", analysis |-> gateway_call.result])

\* the frame of the finished call is gone once the stage has left its
\* synchronous part
run_cv_jd_analysis_end ==
    /\ gateway_call.pc \in {"returned", "raised"}
    /\ \A a \in DOMAIN cv_tasks : cv_tasks[a].pc # "running"
    /\ gateway_call' = NoGatewayCall
    /\ UNCHANGED <<client_calls, recruiter_side, now, candidate_selected_job,
                   latest_application_id, tables, cv_requests, cv_tasks,
                   video_tasks, video_files, response>>

\* the attempts of a call ended with an exception, MAX_RETRIES times
Exhausted(frame) ==
    /\ frame.pc = "returned"
    /\ Len(frame.history) = MAX_RETRIES
    /\ \A i \in 1..Len(frame.history) :
           frame.history[i] \in {"connection_error", "other_error"}

\* CV submissions with a healthy store whose stage downloads the CV and
\* calls a gateway that answers, fails or returns what cannot be parsed
InferenceNext ==
    \/ set_candidate_selected_job("", 1)
    \/ SubmitCv(MaxInferredSubmits, {"cv1"}, {TRUE})
    \/ \E a \in DOMAIN cv_tasks : gateway_call.pc = "idle" /\ cv_stage_start(a)
    \/ \E a \in DOMAIN cv_tasks :
           /\ gateway_call.pc = "idle"
           /\ cv_stage_analyzed(a, [kind |-> "download_failed",
                                    analysis |-> ErrorResult(NoneStr)])
    \/ /\ \E a \in DOMAIN cv_tasks : cv_tasks[a].pc = "running"
       /\ \E file_exists, client_ok \in BOOLEAN :
              run_cv_jd_analysis_begin(file_exists, client_ok)
    \/ \E outcome \in AttemptOutcomes : run_cv_jd_analysis_attempt(outcome)
    \/ run_cv_jd_analysis_slept
    \/ \E a \in DOMAIN cv_tasks : cv_stage_inferred(a)
    \/ run_cv_jd_analysis_end
    \/ \E a \in DOMAIN cv_tasks : cv_stage_update_candidate(a, TRUE)
    \/ \E a \in DOMAIN cv_tasks : cv_stage_update_cv_analysis(a, TRUE)
    \/ \E a \in DOMAIN cv_tasks : cv_stage_upsert_assessment(a, TRUE)

InferenceSpec == Init /\ [][InferenceNext]_vars

(***************************************************************************)
(* Claims about the CV gateway.                                            *)
(***************************************************************************)
AllConnectionErrors(history) ==
    /\ history # <<>>
    /\ \A i \in 1..Len(history) : history[i] = "connection_error"

\* C2: a call of run_cv_jd_analysis on an existing file whose remote call
\* raises a connection-class error on every attempt makes exactly 4
\* attempts and then returns a result whose error field is set and whose
\* content fields are empty: name, email, phone_number, address and
\* description empty, matching_analysis the empty list, Total_score null.
C2_FourAttemptsThenErrorResult ==
    AllConnectionErrors(gateway_call.history) =>
        /\ Len(gateway_call.history) <= 4
        /\ gateway_call.pc # "raised"
        /\ Len(gateway_call.history) < 4 => gateway_call.pc \in {"sleeping", "attempting"}
        /\ Len(gateway_call.history) = 4 =>
              /\ gateway_call.pc = "returned"
              /\ gateway_call.result.error \notin {NoneStr, EmptyStr}
              /\ gateway_call.result.name = EmptyStr
              /\ gateway_call.result.email = EmptyStr
              /\ gateway_call.result.phone_number = EmptyStr
              /\ gateway_call.result.address = EmptyStr
              /\ gateway_call.result.description = EmptyStr
              /\ gateway_call.result.matching_analysis = <<>>
              /\ gateway_call.result.Total_score = NoneInt

\* the call returned after the fourth connection error in a row
C2_Witness ==
    /\ gateway_call.pc = "returned"
    /\ Len(gateway_call.history) = 4
    /\ AllConnectionErrors(gateway_call.history)
    /\ gateway_call.sleeps = 3

(***************************************************************************)
(* Claims about submit CV and the CV-analysis stage.                       *)
(***************************************************************************)
\* C3: the CV-analysis stage always finalizes: on every path through
\* _download_and_analyze_cv (download failure, an exception in the inference
\* call or in the candidate-profile update, success) update_cv_analysis is
\* called exactly once, with the text and score the stage obtained.
C3_StageAlwaysFinalizes ==
    \A a \in DOMAIN cv_tasks :
        LET f == cv_tasks[a]
        IN  /\ f.calls <= 1
            /\ f.pc = "done" => f.calls = 1
            /\ f.calls = 1 /\ f.written =>
                   /\ cv_data[a].cv_text = f.cv_text
                   /\ cv_data[a].technical_score = f.technical_score
                   /\ f.payload.present => f.technical_score = f.payload.cv_score

\* a stage whose download or inference call raised has finished and has
\* written the substitute text
C3_Witness ==
    \E a \in DOMAIN cv_tasks :
        /\ cv_tasks[a].pc = "done"
        /\ ~cv_tasks[a].payload.present
        /\ cv_tasks[a].calls = 1
        /\ cv_data[a].cv_text = Blank

\* C9: in every reachable state in which an Application row exists, also
\* between the steps of submit_cv and after a store failure inside it, the
\* Assessment row of the application exists.
C9_AssessmentExists ==
    \A a \in DOMAIN candidate_applications : a \in DOMAIN ai_assessments

C15_NoSelectedJobRejected ==
    [][\A u \in CvUrls, ok \in StoreOutcomes :
          receive_cv_url_begin(u, ok) /\ candidate_selected_job["default"] = 0 =>
              /\ response'.op = "cv-url" /\ response'.status = 400
              /\ UNCHANGED <<candidates, candidate_applications, cv_data,
                             ai_assessments, video_submissions,
                             latest_application_id, cv_tasks, video_tasks>>
              /\ cv_requests'[Len(cv_requests')].pc = "done"]_vars

\* a CV submission was rejected while rows of an earlier submission exist
C15_Witness ==
    /\ response.op = "cv-url" /\ response.status = 400
    /\ candidate_selected_job["default"] = 0
    /\ latest_application_id = 0
    /\ candidates # <<>>
    /\ \A r \in DOMAIN cv_requests : cv_requests[r].pc = "done"
    /\ Len(cv_requests) = Cardinality(DOMAIN candidates) + 1

C17_SelectionPerSession ==
    [][\A session_id \in SessionIds :
          (/\ \A job_id \in Jobs :
                 set_candidate_selected_job(session_id, job_id) =>
                     (/\ candidate_selected_job'[SessionKey(session_id)] = job_id
                      /\ \A k \in DOMAIN candidate_selected_job :
                            k # SessionKey(session_id) =>
                                candidate_selected_job'[k] = candidate_selected_job[k])
           /\ get_candidate_selected_job(session_id) =>
                 response'.job_id = candidate_selected_job[SessionKey(session_id)]
           /\ \A u \in CvUrls :
                 (/\ receive_cv_url_begin(u, TRUE)
                  /\ candidate_selected_job[SessionKey(session_id)] # 0)
                 => response'.status # 400)]_vars

(***************************************************************************)
(* Claims about the recruiter decision.                                    *)
(***************************************************************************)
\* an uninterrupted run of record_recruiter_decision that passes both reads
decided(apps, rows, application_id, decision, at) ==
    [apps |-> update_application_status(apps, application_id, status_map(decision)),
     rows |-> upsert_recruiter_decision(rows, application_id,
                  jobs[apps[application_id].job_id].recruiter_id, decision, at)]

WithoutDate(rows) == {[row EXCEPT !.decision_date = 0] : row \in rows}

AuditRows(rows, application_id) == {row \in rows : row.application_id = application_id}

\* C11: record_recruiter_decision maps accept to accepted, reject to rejected
\* and interview to sent_to_interview, and is idempotent: from every reachable
\* store, calling it twice with the same application and decision leaves the
\* same status and the same single audit row, apart from its date, as calling
\* it once.
C11_DecisionMapsAndIsIdempotent ==
    \A a \in DOMAIN candidate_applications, d \in Decisions :
        recruiter_resolved(candidate_applications[a].job_id) =>
            LET once == decided(candidate_applications, recruiter_decisions, a, d, now)
                twice == decided(once.apps, once.rows, a, d, Horizon)
            IN  /\ d = "accept" => once.apps[a].status = "accepted"
                /\ d = "reject" => once.apps[a].status = "rejected"
                /\ d = "interview" => once.apps[a].status = "sent_to_interview"
                /\ twice.apps = once.apps
                /\ WithoutDate(twice.rows) = WithoutDate(once.rows)
                /\ Cardinality(AuditRows(twice.rows, a)) = 1
                /\ \A row \in AuditRows(twice.rows, a) : row.final_decision = d

\* two calls with the same application and decision have both returned
C11_Witness ==
    \E c1, c2 \in DOMAIN decision_calls :
        /\ c1 < c2
        /\ decision_calls[c1].result = "ok" /\ decision_calls[c2].result = "ok"
        /\ decision_calls[c1].application_id = decision_calls[c2].application_id
        /\ decision_calls[c1].decision = "interview"
        /\ decision_calls[c2].decision = "interview"
        /\ candidate_applications[decision_calls[c1].application_id].status
               = "sent_to_interview"
        /\ Cardinality(AuditRows(recruiter_decisions,
                                 decision_calls[c1].application_id)) = 1

\* C12: the status change and the audit row are written atomically: no
\* reachable state has an application's decided status without an audit row
\* of the decision that gives this status.
C12_StatusHasMatchingAudit ==
    \A a \in DOMAIN candidate_applications :
        candidate_applications[a].status # "pending" =>
            \E row \in AuditRows(recruiter_decisions, a) :
                \/ row.final_decision = "accept"
                   /\ candidate_applications[a].status = "accepted"
                \/ row.final_decision = "reject"
                   /\ candidate_applications[a].status = "rejected"
                \/ row.final_decision = "interview"
                   /\ candidate_applications[a].status = "sent_to_interview"

\* C13: record_recruiter_decision fails without changing stored state: a
\* decision outside accept, reject, interview is rejected before the store
\* is read or written, and a call that finds no application, or no recruiter
\* for the application's job, returns null and has written nothing; only a
\* call that resolved both writes.
C13_FailsWithoutWriting ==
    \A c \in DOMAIN decision_calls :
        LET f == decision_calls[c]
        IN  /\ f.decision \notin {"accept", "reject", "interview"} =>
                   f.result = "invalid" /\ f.reads = 0 /\ f.writes = 0
            /\ f.result = "null" => f.writes = 0
            /\ f.writes > 0 \/ f.pc \in {"update_status", "upsert_decision"}
                   \/ f.result = "ok" =>
                   /\ f.application_id \in DOMAIN candidate_applications
                   /\ f.recruiter_id # NoneInt
            /\ f.reads = 2 /\ f.recruiter_id = NoneInt =>
                   f.result = "null" /\ f.pc = "done"

\* a call returned null because the job of the application has no row, one
\* because there is no such application, and one was rejected as invalid
C13_Witness ==
    /\ \E c \in DOMAIN decision_calls :
          /\ decision_calls[c].result = "null"
          /\ decision_calls[c].reads = 2
          /\ decision_calls[c].application_id \in DOMAIN candidate_applications
          /\ candidate_applications[decision_calls[c].application_id].status = "pending"
          /\ recruiter_decisions = {}
    /\ \E c \in DOMAIN decision_calls :
          \/ decision_calls[c].result = "null" /\ decision_calls[c].reads = 1
          \/ decision_calls[c].result = "invalid"

\* C14: the recruiter decision is one-way: once the status of an application
\* has left pending no operation makes it pending again; a later decision
\* may overwrite an earlier one.
C14_StatusNeverBackToPending ==
    [][\A a \in DOMAIN candidate_applications :
          candidate_applications[a].status # "pending" =>
              candidate_applications'[a].status # "pending"]_vars

\* an application accepted by an earlier call was sent to interview by a
\* later one
C14_Witness ==
    \E c1, c2 \in DOMAIN decision_calls :
        /\ c1 < c2
        /\ decision_calls[c1].result = "ok" /\ decision_calls[c2].result = "ok"
        /\ decision_calls[c1].application_id = decision_calls[c2].application_id
        /\ decision_calls[c1].decision = "accept"
        /\ decision_calls[c2].decision = "interview"
        /\ candidate_applications[decision_calls[c2].application_id].status
               = "sent_to_interview"
        /\ \A row \in AuditRows(recruiter_decisions, decision_calls[c2].application_id) :
               row.final_decision = "interview"

(***************************************************************************)
(* Claims about the status projection.                                     *)
(***************************************************************************)
StatusResponse == response.op = "analysis-status"

\* C1: for the flow's latest application repeated analysis-status polls
\* eventually return pending=false, whatever the CV stage does and whatever
\* store write of submit_cv failed: the client never waits forever.
C1_PollingNeverWaitsForever == []<>(~(StatusResponse /\ response.pending))

\* C4: the status operation fails open: when its store call takes longer
\* than 10 seconds or raises, and when there is no latest application, it
\* returns pending=false whatever the state of the analysis.
C4_StatusFailsOpen ==
    StatusResponse /\ (response.store \in {"timeout", "error"}
                       \/ response.application_id = 0)
        => ~response.pending

\* the store call of the last status check timed out while the analysis of
\* the polled application was not complete
C4_Witness ==
    /\ StatusResponse
    /\ response.store = "timeout"
    /\ response.application_id = latest_application_id
    /\ latest_application_id # 0
    /\ ~is_analysis_complete_for_application(latest_application_id)
    /\ ~response.pending

\* the completion condition of the specification, on the stored rows
HasNonSpace(s) == \E i \in 1..Len(s) : s[i] # " "

CompleteBySpec(a) ==
    LET d == cv_data[a]
        c == candidates[candidate_applications[a].candidate_id]
    IN  \/ d.technical_score # NoneInt
        \/ HasNonSpace(d.cv_text)
        \/ (c.full_name # NoneStr /\ c.full_name # EmptyStr)
        \/ now - d.uploaded_at >= 45

\* C5: for an application whose CvRecord exists, a status check whose store
\* call succeeds returns pending=false exactly when technical_score is
\* non-null, or cv_text is non-empty after trimming, or the candidate's
\* full_name is non-empty, or uploaded_at is at least 45 seconds old.
C5_PendingIffIncomplete ==
    [][\A call \in StatusStoreCalls :
          (/\ candidate_analysis_status(call)
           /\ status_store_outcome(call) = "ok"
           /\ latest_application_id \in DOMAIN cv_data)
          => (response'.pending <=> ~CompleteBySpec(latest_application_id))]_vars

\* a status check answered pending=false for a CvRecord with null score,
\* empty text and no name at age 46
C5_Witness ==
    /\ response = Resp("analysis-status", 200, latest_application_id, "ok", FALSE)
    /\ latest_application_id \in DOMAIN cv_data
    /\ LET d == cv_data[latest_application_id]
           c == candidates[candidate_applications[latest_application_id].candidate_id]
       IN  /\ d.technical_score = NoneInt
           /\ d.cv_text = EmptyStr
           /\ c.full_name = NoneStr
           /\ now - d.uploaded_at = 46

(***************************************************************************)
(* Claims about interview videos.                                          *)
(***************************************************************************)
VideoRow(application_id, question_index) ==
    {row \in video_submissions : HasKey(row, application_id, question_index)}

\* the video-analysis stage of the question completed and wrote its metrics
VideoDone(application_id, question_index) ==
    /\ \E t \in DOMAIN video_tasks :
          /\ video_tasks[t].application_id = application_id
          /\ video_tasks[t].question_index = question_index
          /\ video_tasks[t].pc = "done"
    /\ \E row \in VideoRow(application_id, question_index) :
          row.audio_transcript # NoneStr

CvDone(application_id) ==
    /\ application_id \in DOMAIN cv_tasks
    /\ cv_tasks[application_id].pc = "done"
    /\ cv_data[application_id].technical_score # NoneInt

\* C6: once the CV stage is done and the video-analysis stage of every
\* interview question of the job has completed and written its metrics, the
\* application's video progress is reported as (100, complete).
C6_AllStagesDoneIsComplete ==
    \A a \in DOMAIN candidate_applications :
        (/\ CvDone(a)
         /\ \A q \in 0..(QuestionCount(candidate_applications[a].job_id) - 1) :
                VideoDone(a, q))
        => analysis_progress(a) = <<100, TRUE>>

\* the last submit_video call that stored a row for the key
LastSubmit(application_id, question_index) ==
    CHOOSE t \in DOMAIN video_tasks :
        /\ video_tasks[t].application_id = application_id
        /\ video_tasks[t].question_index = question_index
        /\ \A u \in DOMAIN video_tasks :
              (/\ video_tasks[u].application_id = application_id
               /\ video_tasks[u].question_index = question_index) => u <= t

\* C7: after any sequence of submit_video calls there is at most one
\* VideoSubmission row per (application_id, question_index), and the row of
\* a key holds the URL of the latest call for that key.
C7_OneRowPerKeyLatestUrl ==
    /\ \A r1, r2 \in video_submissions :
          HasKey(r1, r2.application_id, r2.question_index) => r1 = r2
    /\ \A t \in DOMAIN video_tasks :
          LET a == video_tasks[t].application_id
              q == video_tasks[t].question_index
          IN  /\ Cardinality(VideoRow(a, q)) = 1
              /\ \A row \in VideoRow(a, q) :
                    row.video_url = video_tasks[LastSubmit(a, q)].video_url

\* submit_video was called twice with the same key and different URLs
C7_Witness ==
    \E t, u \in DOMAIN video_tasks :
        /\ t < u
        /\ video_tasks[t].application_id = video_tasks[u].application_id
        /\ video_tasks[t].question_index = video_tasks[u].question_index
        /\ video_tasks[t].video_url # video_tasks[u].video_url
        /\ u = LastSubmit(video_tasks[u].application_id, video_tasks[u].question_index)
        /\ \E row \in video_submissions :
              /\ HasKey(row, video_tasks[u].application_id, video_tasks[u].question_index)
              /\ row.video_url = video_tasks[u].video_url

\* C8: a CvRecord or VideoSubmission row exists before the analysis stage
\* that writes to it performs its write: every scheduled stage, whatever
\* step it is at, has its row in the store.
C8_RowExistsBeforeStage ==
    /\ \A a \in DOMAIN cv_tasks : a \in DOMAIN cv_data
    /\ \A t \in DOMAIN video_tasks :
          VideoRow(video_tasks[t].application_id, video_tasks[t].question_index) # {}

\* a CV stage and a video stage have both performed their writes
C8_Witness ==
    /\ \E a \in DOMAIN cv_tasks :
          cv_tasks[a].pc = "done" /\ cv_data[a].technical_score # NoneInt
    /\ \E t \in DOMAIN video_tasks :
          /\ video_tasks[t].pc = "done"
          /\ \E row \in VideoRow(video_tasks[t].application_id,
                                 video_tasks[t].question_index) :
                row.audio_transcript = video_tasks[t].metrics.transcript
          /\ video_tasks[t].metrics.transcript # NoneStr

(***************************************************************************)
(* Claims about the Assessment row.                                        *)
(***************************************************************************)
\* C18: upsert_cv_jd_assessment creates the Assessment row when absent and
\* otherwise changes only cv_score, cv_recommendation, cv_matching_analysis,
\* cv_reason_summary and cv_jd_output: the video-related columns of the row
\* and the rows of the other applications are left unchanged.
C18_OnlyCvColumnsChange ==
    [][\A a \in AssessedApplications, payload \in AssessmentPayloads :
          upsert_cv_jd_assessment_call(a, payload) =>
              (/\ DOMAIN ai_assessments' = DOMAIN ai_assessments \cup {a}
               /\ \A b \in DOMAIN ai_assessments :
                     b # a => ai_assessments'[b] = ai_assessments[b]
               /\ ai_assessments'[a].confidence_score =
                     IF a \in DOMAIN ai_assessments
                     THEN ai_assessments[a].confidence_score ELSE NoneInt
               /\ ai_assessments'[a].speech_analysis =
                     IF a \in DOMAIN ai_assessments
                     THEN ai_assessments[a].speech_analysis ELSE NoneStr
               /\ ai_assessments'[a].cv_score = payload.cv_score
               /\ ai_assessments'[a].cv_recommendation = payload.cv_recommendation
               /\ ai_assessments'[a].cv_matching_analysis = payload.cv_matching_analysis
               /\ ai_assessments'[a].cv_reason_summary = payload.cv_reason_summary
               /\ ai_assessments'[a].cv_jd_output = payload.cv_jd_output)]_vars

\* the CV columns of a row with speech columns were written, next to the
\* untouched row of another application
C18_Witness ==
    /\ assessment_call.application_id = 1
    /\ ai_assessments[1].cv_score = 82
    /\ ai_assessments[1].confidence_score = 70
    /\ ai_assessments[1].speech_analysis = <<"s">>
    /\ 2 \in DOMAIN ai_assessments
    /\ ai_assessments[2] = LegacyAssessment

(***************************************************************************)
(* Claims about jobs and the progress of an application.                   *)
(***************************************************************************)
\* C19: create_job and update_job reject every pair of weightages whose sum
\* is not 100, negative values and values above 100 included, and a
\* rejected call leaves the stored jobs unchanged.
C19_WeightagesMustSumTo100 ==
    [][(/\ job_call'.op \in {"create", "update"}
        /\ job_call'.cv_score_weightage + job_call'.video_score_weightage # 100)
          => (job_call'.result = "rejected" /\ jobs' = jobs)]_vars

\* an update with a negative weightage and one above 100 was rejected
C19_Witness ==
    /\ job_call = JobCall("update", 1, -10, 150, "rejected")
    /\ jobs[1] = JobRow(1, 75, 25)

\* C20: video progress is (100, true) for a job with zero interview
\* questions; otherwise the percentage is 100 * analyzed / total rounded to
\* a nearest integer and capped at 100, and complete means the percentage
\* is at least 100; 2 of 4 gives (50, false) and 3 of 3 gives (100, true).
C20_ProgressFormula ==
    LET analyzed == progress_call.analyzed
        total == progress_call.total_questions
        pct == progress_call.result[1]
        complete == progress_call.result[2]
        off == 100 * analyzed - pct * total
    IN  /\ total = 0 => pct = 100 /\ complete
        /\ total > 0 =>
              /\ complete = (pct >= 100)
              /\ pct <= 100
              /\ pct < 100 => 2 * off <= total /\ 2 * off >= 0 - total
              /\ pct = 100 => 200 * analyzed >= 199 * total
        /\ analyzed = 2 /\ total = 4 => pct = 50 /\ ~complete
        /\ analyzed = 3 /\ total = 3 => pct = 100 /\ complete

\* _progress was applied to 2 analyzed answers of 4 questions
C20_Witness == progress_call = ProgressCall(2, 4, <<50, FALSE>>)

(***************************************************************************)
(* Claims about the two gateway clients.                                   *)
(***************************************************************************)
\* C22: _normalize_result coerces the score to an integer: a fraction in
\* [0, 1] is multiplied by 100 and rounded (0.76 gives 76), an out-of-range
\* or non-numeric score becomes null; the keys 'Total Score' and
\* 'Email_Address' are matched to Total_score and email.
C22_ScoreCoercedEmailMatched ==
    LET raw == normalize_call.raw
        out == normalize_call.result
        scores == {i \in DOMAIN raw : raw[i][1] \in ScoreKeys}
        emails == {i \in DOMAIN raw : raw[i][1] \in EmailKeys}
    IN  /\ Cardinality(scores) = 1 =>
              LET v == raw[CHOOSE i \in scores : TRUE][2]
              IN  /\ v.t = "float" /\ v.n \in 0..100 => out.Total_score = v.n
                  /\ v.t = "int" /\ v.n \notin 0..100 => out.Total_score = NoneInt
                  /\ v = PyStr(<<"abc">>) => out.Total_score = NoneInt
        /\ Cardinality(emails) = 1 =>
              out.email = Strip(raw[CHOOSE i \in emails : TRUE][2].s)

\* C23: a call of run_video_full_pipeline on an existing file whose remote
\* call raises a connection-class error on every attempt makes exactly 4
\* attempts and then returns a result whose error is set and in which every
\* content field of the video schema is present.
C23_FourAttemptsThenFullErrorResult ==
    AllConnectionErrors(video_call.history) =>
        /\ Len(video_call.history) <= 4
        /\ Len(video_call.history) < 4 => video_call.pc \in {"sleeping", "attempting"}
        /\ Len(video_call.history) = 4 =>
              /\ video_call.pc = "returned"
              /\ video_call.result.error \notin {NoneStr, EmptyStr}
              /\ VideoContentKeys \subseteq video_call.result.keys

\* C24: neither run_cv_jd_analysis nor run_video_full_pipeline raises to its
\* caller: every failure is returned as a result with an error string.
C24_GatewayNeverRaises ==
    /\ gateway_call.pc # "raised"
    /\ video_call.pc # "raised"

(***************************************************************************)
(* Claims about the results of the CV stage.                               *)
(***************************************************************************)
\* C21: after submit_cv and a CV stage whose scorer returned a Total_score
\* of 0.82 and a name, CvRecord.technical_score and Assessment.cv_score are
\* both 82, the candidate's full_name is the returned name, and the next
\* analysis-status poll for the application returns pending=false.
C21_ScoredStageStoresNormalizedScore ==
    [][/\ \A a \in DOMAIN cv_tasks' :
            cv_tasks'[a].pc = "done" =>
                /\ cv_data'[a].technical_score = 82
                /\ ai_assessments'[a].cv_score = 82
                /\ candidates'[candidate_applications'[a].candidate_id].full_name
                       = <<"A. Khan">>
       /\ (/\ candidate_analysis_status(HealthyCall)
           /\ latest_application_id \in DOMAIN cv_tasks
           /\ cv_tasks[latest_application_id].pc = "done")
             => ~response'.pending]_vars

\* the stage got an analysis that carries an error string
StageGotError(f) ==
    f.payload.present /\ f.payload.cv_jd_output.error \notin {NoneStr, EmptyStr}

\* C25: when the retry budget of the inference call is exhausted the CV
\* stage still finalizes: with a store that accepts its writes it calls
\* update_cv_analysis once, CvRecord.technical_score and Assessment.cv_score
\* stay null, the error string is in the stored cv_jd_output, and no step of
\* the stage changes the response the HTTP caller received.
C25_ExhaustedBudgetStillFinalizes ==
    [][\A a \in DOMAIN cv_tasks :
          /\ (Exhausted(gateway_call) /\ cv_stage_inferred(a)) =>
                 /\ gateway_call.result.error \notin {NoneStr, EmptyStr}
                 /\ cv_tasks'[a].payload.present
                 /\ cv_tasks'[a].payload.cv_jd_output.error = gateway_call.result.error
                 /\ cv_tasks'[a].technical_score = NoneInt
                 /\ cv_tasks'[a].pc = "update_cv_analysis"
          /\ (cv_tasks'[a].pc = "done" /\ StageGotError(cv_tasks'[a])) =>
                 /\ cv_tasks'[a].calls = 1
                 /\ cv_data'[a].technical_score = NoneInt
                 /\ ai_assessments'[a].cv_score = NoneInt
                 /\ ai_assessments'[a].cv_jd_output = cv_tasks'[a].payload.cv_jd_output
          /\ cv_tasks'[a] # cv_tasks[a] => response' = response]_vars

\* the stage of an accepted submission has finished after four connection
\* errors, and the error text is in the Assessment
C25_Witness ==
    \E a \in DOMAIN cv_tasks :
        /\ cv_tasks[a].pc = "done"
        /\ ai_assessments[a].cv_jd_output = ErrorResult(ErrorText("connection_error"))
        /\ ai_assessments[a].cv_score = NoneInt
        /\ cv_data[a].technical_score = NoneInt
        /\ cv_data[a].cv_text = Blank
        /\ response = Resp("cv-url", 200, a, "none", FALSE)

(***************************************************************************)
(* Claims about the candidate profile.                                     *)
(***************************************************************************)
\* a value that says nothing: empty, blank or one of the placeholders
SaysNothing(v) ==
    \/ v = NoneStr
    \/ Strip(v) = EmptyStr
    \/ Strip(v) \in {<<"Not", " ", "provided">>, <<"N/A">>, <<"None">>}

\* C26: the CV stage changes a profile field of its candidate (full_name,
\* email, phone, address) only when the extracted value is non-empty and is
\* not a placeholder such as 'Not provided', 'N/A' or 'None', and then to
\* that value; every other profile field, and every other candidate, keeps
\* the value it had before the step of the stage.
C26_ProfileChangedOnlyByValues ==
    [][\A a \in DOMAIN cv_tasks :
          cv_tasks'[a] # cv_tasks[a] =>
              LET cid == cv_tasks[a].candidate_id
                  an == cv_tasks[a].payload.cv_jd_output
                  Kept(old, new, v) ==
                      new # old => (~SaysNothing(v) /\ new = Strip(v))
              IN  /\ \A c \in DOMAIN candidates :
                         c # cid => candidates'[c] = candidates[c]
                  /\ candidates'[cid] # candidates[cid] =>
                         /\ cv_tasks[a].pc = "update_candidate"
                         /\ Kept(candidates[cid].full_name,
                                 candidates'[cid].full_name, an.name)
                         /\ Kept(candidates[cid].email,
                                 candidates'[cid].email, an.email)
                         /\ Kept(candidates[cid].phone,
                                 candidates'[cid].phone, an.phone_number)
                         /\ Kept(candidates[cid].address,
                                 candidates'[cid].address, an.address)]_vars

\* the stage wrote the extracted name over the reviewed one and kept the
\* reviewed e-mail and address, for which it had only placeholders
C26_Witness ==
    \E a \in DOMAIN cv_tasks :
        LET c == candidates[cv_tasks[a].candidate_id]
            an == cv_tasks[a].payload.cv_jd_output
        IN  /\ cv_tasks[a].pc = "done"
            /\ an.name = <<" ", "A">> /\ an.email = <<"N/A">>
            /\ an.address = <<"Not", " ", "provided">>
            /\ c.full_name = <<"A">>
            /\ c.email = <<"old">>
            /\ c.address = <<"old">>

(***************************************************************************)
(* Claims about concurrency.                                               *)
(***************************************************************************)
\* C27: background stages run concurrently with incoming requests: while a
\* CV stage is inside its media fetch, its inference call or its retry
\* delay, or a video stage inside its fetch or its inference call, the
\* request handler can still serve an analysis-status poll.
C27_RequestsServedDuringStage ==
    (\/ \E a \in DOMAIN cv_tasks : cv_tasks[a].pc = "running"
     \/ \E t \in DOMAIN video_tasks : video_tasks[t].pc \in {"downloading", "inferring"})
        => ENABLED candidate_analysis_status(HealthyCall)

\* the application of the submit_cv call that arrived last among those
\* whose application has its Assessment
MostRecentSubmitted ==
    CHOOSE a \in DOMAIN ai_assessments :
        \A b \in DOMAIN ai_assessments :
            candidate_applications[b].candidate_id
                <= candidate_applications[a].candidate_id

\* C28 as stated: after any interleaving of flows, when no submit_cv is in
\* progress, the latest-application slot holds the application created by
\* the most recent submit_cv of the process.
C28_SlotHoldsMostRecentSubmit ==
    (/\ ai_assessments # <<>>
     /\ \A r \in DOMAIN cv_requests : cv_requests[r].pc = "done")
        => latest_application_id = MostRecentSubmitted

\* C28 as amended: the slot is process-wide and single: it holds the
\* application of the submit_cv call that was the last to insert its
\* Assessment, whichever flow it belongs to and whichever call arrived
\* last, and nothing else changes it; submit video, candidate overview,
\* submit reviewed info and analysis status act on the application in the
\* slot.
C28_SlotIsSingleAndLastWriterWins ==
    [][/\ \A r \in DOMAIN cv_requests :
            receive_cv_url_insert_assessment(r, TRUE) =>
                latest_application_id' = cv_requests[r].application_id
       /\ latest_application_id' # latest_application_id =>
            \E r \in DOMAIN cv_requests :
                /\ cv_requests[r].pc = "insert_assessment"
                /\ cv_requests'[r].pc = "insert_cv"
       /\ latest_application_id # 0 =>
            /\ \A q \in QuestionIndexes :
                   receive_video_url(q, "v1", TRUE) =>
                       /\ response'.application_id = latest_application_id
                       /\ \E row \in video_submissions' :
                              HasKey(row, latest_application_id, q)
                       /\ \A row \in video_submissions' \ video_submissions :
                              row.application_id = latest_application_id
            /\ candidate_overview =>
                   response'.application_id = latest_application_id
            /\ candidate_analysis_status(HealthyCall) =>
                   response'.application_id = latest_application_id
            /\ \A reviewed \in ReviewedInfos :
                   candidate_review(reviewed, TRUE) =>
                       /\ response'.application_id = latest_application_id
                       /\ \A c \in DOMAIN candidates :
                              candidates'[c] # candidates[c] =>
                                  c = candidate_applications[latest_application_id].candidate_id]_vars

\* two flows: the submit_cv that arrived first set the slot last, and the
\* video and the review of the flow that arrived last went to the
\* application of the first
C28_Witness ==
    /\ \A r \in DOMAIN cv_requests : cv_requests[r].pc = "done"
    /\ Cardinality(DOMAIN ai_assessments) = 2
    /\ latest_application_id # MostRecentSubmitted
    /\ \E row \in video_submissions : row.application_id = latest_application_id
    /\ candidates[candidate_applications[latest_application_id].candidate_id].email
           = <<"old">>
    /\ response = Resp("review", 200, latest_application_id, "none", FALSE)

(***************************************************************************)
(* Claims about the CV stage that obtained nothing.                        *)
(***************************************************************************)
\* C29 as stated: when the media fetch of the CV stage fails, the stage
\* leaves the CvRecord and the Assessment exactly as inserted: cv_text
\* empty, parsed_keywords empty, technical_score null, every Assessment
\* field null.
C29_FetchFailureLeavesRowsAsInserted ==
    \A a \in DOMAIN cv_tasks :
        cv_tasks[a].pc = "done" =>
            /\ cv_data[a].cv_text = EmptyStr
            /\ cv_data[a].parsed_keywords = EmptyStr
            /\ cv_data[a].technical_score = NoneInt
            /\ ai_assessments[a] = EmptyAssessment

\* C29 as amended: when the media fetch of the CV stage fails, the stage
\* skips the inference call and the Assessment upsert but still finalizes:
\* it calls update_cv_analysis exactly once, which sets cv_text to a single
\* space and leaves parsed_keywords empty and technical_score null; every
\* Assessment field stays null. Only when that store call fails is the
\* CvRecord left as inserted.
C29_FetchFailureStillFinalizes ==
    \A a \in DOMAIN cv_tasks :
        LET f == cv_tasks[a]
        IN  /\ f.pc = "done" =>
                /\ f.calls = 1
                /\ ~f.payload.present
                /\ cv_data[a].cv_text = IF f.written THEN Blank ELSE EmptyStr
            /\ cv_data[a].cv_text \in {EmptyStr, Blank}
            /\ cv_data[a].parsed_keywords = EmptyStr
            /\ cv_data[a].technical_score = NoneInt
            /\ cv_data[a].cv_url = f.cv_url
            /\ ai_assessments[a] = EmptyAssessment

\* a stage whose download failed is over and its CvRecord holds the single
\* space
C29_Witness ==
    \E a \in DOMAIN cv_tasks :
        /\ cv_tasks[a].pc = "done"
        /\ cv_tasks[a].written
        /\ cv_data[a].cv_text = Blank
        /\ cv_data[a].technical_score = NoneInt
        /\ ai_assessments[a] = EmptyAssessment

\* C30: when the CV stage finalized with neither text nor score, so that
\* the CvRecord holds the single space and no score, the next poll of the
\* analysis status answers pending=false, also while the CvRecord is
\* younger than 45 seconds and the candidate has no name.
C30_SingleSpaceCompletesStatus ==
    [][(/\ candidate_analysis_status(HealthyCall)
        /\ latest_application_id \in DOMAIN cv_tasks
        /\ cv_tasks[latest_application_id].pc = "done"
        /\ latest_application_id \in DOMAIN cv_data
        /\ cv_data[latest_application_id].cv_text = Blank
        /\ cv_data[latest_application_id].technical_score = NoneInt)
           => response'.pending = FALSE]_vars

(***************************************************************************)
(* Claims about the steps of the CV stage under store errors.              *)
(***************************************************************************)
\* C31: whenever the CV stage obtained an analysis payload, it attempts the
\* upsert of the Assessment before it ends, also when the profile update or
\* update_cv_analysis failed with a store error: a stage that holds a
\* payload ends only by its upsert step.
C31_UpsertAttemptedWithPayload ==
    [][\A a \in DOMAIN cv_tasks :
          (/\ cv_tasks[a].payload.present
           /\ cv_tasks[a].pc # "done"
           /\ cv_tasks'[a].pc = "done")
              => cv_tasks[a].pc = "upsert_assessment"]_vars

(***************************************************************************)
(* Claims about the retry loops of the two gateway clients.                *)
(***************************************************************************)
\* the attempt i of the call ended with a parse-failure marker and the call
\* went on to another attempt
MarkerRetried(f, i) ==
    /\ f.history[i] = "parse_marker"
    /\ \/ Len(f.history) > i
       \/ f.pc \in {"attempting", "sleeping"}

\* the attempt i of the call ended with a parse-failure marker and the call
\* returned what it got, normalized
MarkerAccepted(f, i, normalized) ==
    /\ f.history[i] = "parse_marker"
    /\ Len(f.history) = i
    /\ f.pc = "returned"
    /\ f.result = normalized

Retried(f) ==
    {i \in 1..Len(f.history) : i < Len(f.history) \/ f.pc \in {"attempting", "sleeping"}}

\* the retried attempts that ended with an exception
RetriedAfterException(f) ==
    {i \in Retried(f) : f.history[i] # "parse_marker"}

\* C33 as stated: between any two consecutive attempts of a gateway call
\* the retry delay elapses, whether the retry was caused by an error or by
\* a parse-failure marker: the call has slept once for every attempt that
\* was followed by another.
C33_DelayBetweenAnyTwoAttempts ==
    /\ gateway_call.sleeps = Cardinality(Retried(gateway_call))
    /\ video_call.sleeps = Cardinality(Retried(video_call))

\* C33 as amended: the retry delay elapses before every attempt that
\* follows a raised exception, in both gateway clients; the attempt that
\* run_cv_jd_analysis makes after a response with a parse-failure marker
\* starts immediately, without a delay. The calls of time.sleep are as
\* many as the retried attempts that ended with an exception.
C33_DelayAfterExceptionsOnly ==
    /\ gateway_call.sleeps = Cardinality(RetriedAfterException(gateway_call))
    /\ video_call.sleeps = Cardinality(Retried(video_call))
    /\ gateway_call.pc = "sleeping" =>
           gateway_call.history[Len(gateway_call.history)] # "parse_marker"

\* a CV call retried once after a marker and once after a connection error
\* and slept once; a video call retried twice and slept twice
C33_Witness ==
    /\ gateway_call.pc = "returned"
    /\ gateway_call.history = <<"parse_marker", "connection_error", "ok">>
    /\ gateway_call.sleeps = 1
    /\ video_call.pc = "returned"
    /\ Len(video_call.history) = 3
    /\ video_call.sleeps = 2

(***************************************************************************)
(* Claims about the writes of the video-analysis stage.                    *)
(***************************************************************************)
\* C34: a step of a video-analysis stage changes only the analysis fields
\* of the VideoSubmission row of its own (application_id, question_index):
\* the CvRecords, the candidates and the applications are unchanged, every
\* row of another question or application is unchanged, the video_url and
\* video_score of its own row are unchanged, every existing Assessment row
\* is unchanged, and an Assessment row is added only for its own
\* application, with every field null.
C34_VideoStageWritesOwnRowOnly ==
    [][\A t \in DOMAIN video_tasks :
          (video_tasks'[t] # video_tasks[t]) =>
              LET f == video_tasks[t]
              IN  /\ cv_data' = cv_data
                  /\ candidates' = candidates
                  /\ candidate_applications' = candidate_applications
                  /\ \A a \in DOMAIN ai_assessments :
                         /\ a \in DOMAIN ai_assessments'
                         /\ ai_assessments'[a] = ai_assessments[a]
                  /\ \A a \in DOMAIN ai_assessments' \ DOMAIN ai_assessments :
                         /\ a = f.application_id
                         /\ ai_assessments'[a] = EmptyAssessment
                  /\ \A row \in video_submissions :
                         ~HasKey(row, f.application_id, f.question_index)
                             => row \in video_submissions'
                  /\ \A new \in video_submissions' \ video_submissions :
                         /\ HasKey(new, f.application_id, f.question_index)
                         /\ \E row \in video_submissions :
                                /\ HasKey(row, f.application_id, f.question_index)
                                /\ new.video_url = row.video_url
                                /\ new.video_score = row.video_score
                  /\ Cardinality(video_submissions') = Cardinality(video_submissions)]_vars

\* a stage has finished and written its transcript, the row of the other
\* question of the application has none, and the results of the CV stage
\* are in place
C34_Witness ==
    \E t \in DOMAIN video_tasks :
        LET f == video_tasks[t]
        IN  /\ f.pc = "done"
            /\ \E row \in video_submissions :
                   /\ HasKey(row, f.application_id, f.question_index)
                   /\ row.audio_transcript # NoneStr
            /\ \E row \in video_submissions :
                   /\ row.application_id = f.application_id
                   /\ row.question_index # f.question_index
                   /\ row.audio_transcript = NoneStr
            /\ f.application_id \in DOMAIN cv_data
            /\ cv_data[f.application_id].technical_score # NoneInt
            /\ ai_assessments[f.application_id].cv_score # NoneInt

\* the outcomes of an attempt that are raised exceptions
RaisedOutcomes ==
    {"connection_error", "other_error", "invalid_json", "http_error_invalid_json"}

\* every exception of an attempt before the 4th was followed by the delay
\* and another attempt, and an exception of the 4th attempt by the error
\* result
ExceptionRetried(f) ==
    /\ \A i \in 1..Len(f.history) :
           f.history[i] \in RaisedOutcomes =>
               IF i < 4 THEN i \in Retried(f)
               ELSE /\ f.pc = "returned"
                    /\ f.result.error \notin {NoneStr, EmptyStr}
    /\ f.sleeps = Cardinality(RetriedAfterException(f))
    /\ f.pc = "returned" /\ f.history[Len(f.history)] \in RaisedOutcomes
           => Len(f.history) = 4

\* C35: in run_cv_jd_analysis and run_video_full_pipeline the retry after a
\* raised exception does not depend on the connection-error classification:
\* every exception raised by an attempt before the 4th, of the connection
\* class or not, is followed by the delay and another attempt, and no call
\* returns after an exception before its 4th attempt.
C35_RetryWhateverTheException ==
    /\ gateway_call.pc # "idle" /\ gateway_call.history # <<>>
           => ExceptionRetried(gateway_call)
    /\ video_call.pc # "idle" /\ video_call.history # <<>>
           => ExceptionRetried(video_call)

\* both calls returned their error result after four exceptions that are
\* not of the connection class, having slept three times
C35_Witness ==
    /\ gateway_call.pc = "returned"
    /\ gateway_call.history = <<"other_error", "other_error", "other_error", "other_error">>
    /\ gateway_call.sleeps = 3
    /\ video_call.pc = "returned"
    /\ video_call.history = <<"other_error", "invalid_json", "other_error", "other_error">>
    /\ video_call.sleeps = 3

\* C36: in run_video_full_pipeline a response with a non-success HTTP
\* status ends the call at once: the error result is returned after that
\* attempt and no further attempt is made, whatever the response and however
\* many attempts remain.
C36_ErrorStatusEndsVideoCall ==
    \A i \in 1..Len(video_call.history) :
        video_call.history[i] \in {"http_error", "http_error_invalid_json"} =>
            /\ Len(video_call.history) = i
            /\ video_call.pc = "returned"
            /\ video_call.result.error \notin {NoneStr, EmptyStr}

(***************************************************************************)
(* Claims about the reviewed profile and the completion predicate.         *)
(***************************************************************************)
\* C37: values saved by candidate_review are not overwritten by the
\* CV-analysis stage: when the last answer of the process is the
\* acknowledgement of a review of the application, no step of the stage of
\* that application changes the profile of its candidate.
C37_ReviewedValuesKept ==
    [][\A a \in DOMAIN cv_tasks :
          (/\ response = Resp("review", 200, a, "none", FALSE)
           /\ cv_tasks'[a] # cv_tasks[a])
              => candidates'[cv_tasks[a].candidate_id]
                     = candidates[cv_tasks[a].candidate_id]]_vars

(***************************************************************************)
(* Claims about a video that is submitted again.                           *)
(***************************************************************************)
\* C38: when the video of an (application_id, question_index) was submitted
\* twice and both video stages have finished, in any interleaving, the
\* metrics on the VideoSubmission row are those computed from the video_url
\* stored on the row, never those of the earlier video: the transcript is
\* the one of the row's video, or null.
C38_MetricsOfStoredVideo ==
    \A t1, t2 \in DOMAIN video_tasks :
        (/\ t1 < t2
         /\ video_tasks[t1].application_id = video_tasks[t2].application_id
         /\ video_tasks[t1].question_index = video_tasks[t2].question_index
         /\ video_tasks[t1].pc = "done"
         /\ video_tasks[t2].pc = "done")
            => \A row \in video_submissions :
                   HasKey(row, video_tasks[t1].application_id,
                          video_tasks[t1].question_index)
                       => row.audio_transcript \in {NoneStr, <<row.video_url>>}

\* C39: for a fixed application the completion predicate is stable: once
\* is_analysis_complete_for_application is true of the application, it is
\* true after every step of the CV stage and of candidate_review.
C39_CompletionIsStable ==
    [][\A a \in DOMAIN cv_data :
          is_analysis_complete_for_application(a)
              => is_analysis_complete_for_application(a)']_vars

(***************************************************************************)
(* Claims about the progress of large jobs.                                *)
(***************************************************************************)
\* C40: for a job with at least one question _progress reports
\* complete=true only if analyzed_count >= total_question_count, for every
\* pair of counts, also the large ones where the percentage is rounded.
C40_CompleteOnlyWhenAllAnalyzed ==
    (/\ progress_call.total_questions > 0
     /\ progress_call.result[2])
        => progress_call.analyzed >= progress_call.total_questions

====
